---------------------------- MODULE Spec2Model ----------------------------
(***************************************************************************)
(* A model of onkyocontrol: the select() reactor of onkyo.c, the receiver  *)
(* command queue and status parser of receiver.c, and the user command     *)
(* translator of command.c.                                                *)
(*                                                                         *)
(* C strings are sequences of character codes (ASCII), so that strstr,     *)
(* strtol, sprintf and the SDBM hash are computed as the code computes     *)
(* them.  A literal is written with its text in a comment before it.       *)
(***************************************************************************)
EXTENDS Integers, Sequences, FiniteSets, TLC

(***************************************************************************)
(* Program constants (onkyo.h).                                            *)
(***************************************************************************)
BUF_SIZE == 64
COMMAND_WAIT == 80

POWER_OFF == 0
MAIN_POWER == 1
ZONE2_POWER == 2
ZONE3_POWER == 4

\* the NULL pointer, where a char pointer may be NULL
NULL == <<-1>>

(***************************************************************************)
(* C library.                                                              *)
(***************************************************************************)
isspace(c) == c \in {32, 9, 10, 11, 12, 13}

toupper(c) == IF c >= 97 /\ c <= 122 THEN c - 32 ELSE c

\* value of a character as a digit, 99 when it is none
digit_value(c) ==
    IF c >= 48 /\ c <= 57 THEN c - 48
    ELSE IF c >= 97 /\ c <= 122 THEN c - 87
    ELSE IF c >= 65 /\ c <= 90 THEN c - 55
    ELSE 99

\* strstr(h, n) != NULL
strstr(h, n) ==
    \E i \in 0..(Len(h) - Len(n)) : SubSeq(h, i + 1, i + Len(n)) = n

\* offset (from 1) of the first c in s, 0 when there is none
strchr(s, c) ==
    IF \E i \in 1..Len(s) : s[i] = c
    THEN CHOOSE i \in 1..Len(s) : s[i] = c /\ \A j \in 1..(i - 1) : s[j] # c
    ELSE 0

\* the C string that starts a byte array: the bytes before the first NUL
cstring(bytes) ==
    LET z == strchr(bytes, 0)
    IN  IF z = 0 THEN bytes ELSE SubSeq(bytes, 1, z - 1)

RECURSIVE skip_space(_)
skip_space(s) ==
    IF s # <<>> /\ isspace(Head(s)) THEN skip_space(Tail(s)) ELSE s

RECURSIVE strtol_digits(_, _, _)
strtol_digits(s, base, acc) ==
    IF s # <<>> /\ digit_value(Head(s)) < base
    THEN strtol_digits(Tail(s), base, acc * base + digit_value(Head(s)))
    ELSE [val |-> acc, rest |-> s]

\* strtol(s, &rest, base): leading space, an optional sign, an optional 0x
\* when the base is 16, then digits; with no digit, 0 and rest = s
strtol(s, base) ==
    LET s1  == skip_space(s)
        neg == s1 # <<>> /\ Head(s1) = 45
        s2  == IF s1 # <<>> /\ Head(s1) \in {43, 45} THEN Tail(s1) ELSE s1
        s3  == IF /\ base = 16
                  /\ Len(s2) >= 3
                  /\ s2[1] = 48
                  /\ s2[2] \in {120, 88}
                  /\ digit_value(s2[3]) < 16
               THEN Tail(Tail(s2))
               ELSE s2
        r   == strtol_digits(s3, base, 0)
    IN  IF r.rest = s3
        THEN [val |-> 0, rest |-> s]
        ELSE [val |-> IF neg THEN 0 - r.val ELSE r.val, rest |-> r.rest]

RECURSIVE digits_of(_, _)
digits_of(n, base) ==
    LET d == n % base
        c == IF d < 10 THEN 48 + d ELSE 55 + d
    IN  IF n < base THEN <<c>> ELSE Append(digits_of(n \div base, base), c)

RECURSIVE zero_pad(_, _)
zero_pad(s, width) ==
    IF Len(s) >= width THEN s ELSE zero_pad(<<48>> \o s, width)

\* printf conversions: "%ld", "%+ld", "%0<w>ld", "%0<w>lX" (n >= 0 for the last two)
fmt_ld(n) == IF n < 0 THEN <<45>> \o digits_of(0 - n, 10) ELSE digits_of(n, 10)

fmt_plus_ld(n) == IF n < 0 THEN fmt_ld(n) ELSE <<43>> \o digits_of(n, 10)

fmt_0ld(n, width) ==
    IF n < 0 THEN <<45>> \o zero_pad(digits_of(0 - n, 10), width - 1)
    ELSE zero_pad(digits_of(n, 10), width)

fmt_0lX(n, width) == zero_pad(digits_of(n, 16), width)

\* snprintf(buf, BUF_SIZE, ...): at most BUF_SIZE - 1 characters are kept
snprintf(s) == IF Len(s) >= BUF_SIZE THEN SubSeq(s, 1, BUF_SIZE - 1) ELSE s

(***************************************************************************)
(* util.c: the SDBM hash.  An unsigned long is 64 bits wide; it is kept as *)
(* four 16-bit limbs, least significant first, and                         *)
(*   hash = c + (hash << 6) + (hash << 16) - hash                          *)
(* is computed limb by limb as hash * 65536 + hash * 63 + c, modulo 2^64.  *)
(***************************************************************************)
hash_step(h, c) ==
    LET t1 == h[1] * 63 + c
        t2 == h[2] * 63 + h[1] + (t1 \div 65536)
        t3 == h[3] * 63 + h[2] + (t2 \div 65536)
        t4 == h[4] * 63 + h[3] + (t3 \div 65536)
    IN  <<t1 % 65536, t2 % 65536, t3 % 65536, t4 % 65536>>

\* the loop of hash_sdbm() over the characters, from left to right: the hash
\* of a string is the hash of its second half begun from that of its first
\* (which the comparison has computed before the second half is begun)
RECURSIVE hash_from(_, _)
hash_from(h, str) ==
    IF str = <<>> THEN h
    ELSE IF Len(str) = 1 THEN hash_step(h, str[1])
    ELSE LET half == Len(str) \div 2
             mid  == hash_from(h, SubSeq(str, 1, half))
             rest == SubSeq(str, half + 1, Len(str))
         IN  IF mid = h THEN hash_from(h, rest) ELSE hash_from(mid, rest)

hash_zero == <<0, 0, 0, 0>>

hash_sdbm(str) == IF str = NULL THEN hash_zero ELSE hash_from(hash_zero, str)

(***************************************************************************)
(* Time: a struct timeval is [tv_sec, tv_usec].                            *)
(***************************************************************************)
timeval(sec, usec) == [tv_sec |-> sec, tv_usec |-> usec]

timeval_zero == timeval(0, 0)

\* a timeval as a number of microseconds, and back (a clock reading is >= 0)
usec_of(tv) == tv.tv_sec * 1000000 + tv.tv_usec

timeval_of(us) == timeval(us \div 1000000, us % 1000000)

\* a - b, with the microseconds brought into range
timeval_diff(a, b) ==
    LET sec  == a.tv_sec - b.tv_sec
        usec == a.tv_usec - b.tv_usec
    IN  IF usec < 0 THEN timeval(sec - 1, usec + 1000000) ELSE timeval(sec, usec)

\* the earlier of two times, where a zero a stands for no time at all
timeval_min(a, b) ==
    IF a.tv_sec = 0 /\ a.tv_usec = 0 THEN b
    ELSE IF a.tv_sec < b.tv_sec THEN a
    ELSE IF a.tv_sec > b.tv_sec THEN b
    ELSE IF a.tv_usec < b.tv_usec THEN a ELSE b

timeval_positive(tv) == tv.tv_sec > 0 \/ tv.tv_usec > 0

(***************************************************************************)
(* receiver.c: the status tables.  init_statuses() stores the hash of each *)
(* key in the entry; a lookup compares hashes only.                        *)
(***************************************************************************)
statuses == <<
    [key |-> (*"AMT00"*) <<65, 77, 84, 48, 48>>, value |-> (*"OK:mute:off\n"*) <<79, 75, 58, 109, 117, 116, 101, 58, 111, 102, 102, 10>>],
    [key |-> (*"AMT01"*) <<65, 77, 84, 48, 49>>, value |-> (*"OK:mute:on\n"*) <<79, 75, 58, 109, 117, 116, 101, 58, 111, 110, 10>>],
    [key |-> (*"SLI00"*) <<83, 76, 73, 48, 48>>, value |-> (*"OK:input:DVR\n"*) <<79, 75, 58, 105, 110, 112, 117, 116, 58, 68, 86, 82, 10>>],
    [key |-> (*"SLI01"*) <<83, 76, 73, 48, 49>>, value |-> (*"OK:input:Cable\n"*) <<79, 75, 58, 105, 110, 112, 117, 116, 58, 67, 97, 98, 108, 101, 10>>],
    [key |-> (*"SLI02"*) <<83, 76, 73, 48, 50>>, value |-> (*"OK:input:TV\n"*) <<79, 75, 58, 105, 110, 112, 117, 116, 58, 84, 86, 10>>],
    [key |-> (*"SLI03"*) <<83, 76, 73, 48, 51>>, value |-> (*"OK:input:AUX\n"*) <<79, 75, 58, 105, 110, 112, 117, 116, 58, 65, 85, 88, 10>>],
    [key |-> (*"SLI04"*) <<83, 76, 73, 48, 52>>, value |-> (*"OK:input:AUX2\n"*) <<79, 75, 58, 105, 110, 112, 117, 116, 58, 65, 85, 88, 50, 10>>],
    [key |-> (*"SLI05"*) <<83, 76, 73, 48, 53>>, value |-> (*"OK:input:PC\n"*) <<79, 75, 58, 105, 110, 112, 117, 116, 58, 80, 67, 10>>],
    [key |-> (*"SLI10"*) <<83, 76, 73, 49, 48>>, value |-> (*"OK:input:DVD\n"*) <<79, 75, 58, 105, 110, 112, 117, 116, 58, 68, 86, 68, 10>>],
    [key |-> (*"SLI20"*) <<83, 76, 73, 50, 48>>, value |-> (*"OK:input:Tape\n"*) <<79, 75, 58, 105, 110, 112, 117, 116, 58, 84, 97, 112, 101, 10>>],
    [key |-> (*"SLI22"*) <<83, 76, 73, 50, 50>>, value |-> (*"OK:input:Phono\n"*) <<79, 75, 58, 105, 110, 112, 117, 116, 58, 80, 104, 111, 110, 111, 10>>],
    [key |-> (*"SLI23"*) <<83, 76, 73, 50, 51>>, value |-> (*"OK:input:CD\n"*) <<79, 75, 58, 105, 110, 112, 117, 116, 58, 67, 68, 10>>],
    [key |-> (*"SLI24"*) <<83, 76, 73, 50, 52>>, value |-> (*"OK:input:FM Tuner\n"*) <<79, 75, 58, 105, 110, 112, 117, 116, 58, 70, 77, 32, 84, 117, 110, 101, 114, 10>>],
    [key |-> (*"SLI25"*) <<83, 76, 73, 50, 53>>, value |-> (*"OK:input:AM Tuner\n"*) <<79, 75, 58, 105, 110, 112, 117, 116, 58, 65, 77, 32, 84, 117, 110, 101, 114, 10>>],
    [key |-> (*"SLI26"*) <<83, 76, 73, 50, 54>>, value |-> (*"OK:input:Tuner\n"*) <<79, 75, 58, 105, 110, 112, 117, 116, 58, 84, 117, 110, 101, 114, 10>>],
    [key |-> (*"SLI27"*) <<83, 76, 73, 50, 55>>, value |-> (*"OK:input:Music Server\n"*) <<79, 75, 58, 105, 110, 112, 117, 116, 58, 77, 117, 115, 105, 99, 32, 83, 101, 114, 118, 101, 114, 10>>],
    [key |-> (*"SLI28"*) <<83, 76, 73, 50, 56>>, value |-> (*"OK:input:Internet Radio\n"*) <<79, 75, 58, 105, 110, 112, 117, 116, 58, 73, 110, 116, 101, 114, 110, 101, 116, 32, 82, 97, 100, 105, 111, 10>>],
    [key |-> (*"SLI29"*) <<83, 76, 73, 50, 57>>, value |-> (*"OK:input:USB\n"*) <<79, 75, 58, 105, 110, 112, 117, 116, 58, 85, 83, 66, 10>>],
    [key |-> (*"SLI2A"*) <<83, 76, 73, 50, 65>>, value |-> (*"OK:input:USB Rear\n"*) <<79, 75, 58, 105, 110, 112, 117, 116, 58, 85, 83, 66, 32, 82, 101, 97, 114, 10>>],
    [key |-> (*"SLI40"*) <<83, 76, 73, 52, 48>>, value |-> (*"OK:input:Port\n"*) <<79, 75, 58, 105, 110, 112, 117, 116, 58, 80, 111, 114, 116, 10>>],
    [key |-> (*"SLI30"*) <<83, 76, 73, 51, 48>>, value |-> (*"OK:input:Multichannel\n"*) <<79, 75, 58, 105, 110, 112, 117, 116, 58, 77, 117, 108, 116, 105, 99, 104, 97, 110, 110, 101, 108, 10>>],
    [key |-> (*"SLI31"*) <<83, 76, 73, 51, 49>>, value |-> (*"OK:input:XM Radio\n"*) <<79, 75, 58, 105, 110, 112, 117, 116, 58, 88, 77, 32, 82, 97, 100, 105, 111, 10>>],
    [key |-> (*"SLI32"*) <<83, 76, 73, 51, 50>>, value |-> (*"OK:input:Sirius Radio\n"*) <<79, 75, 58, 105, 110, 112, 117, 116, 58, 83, 105, 114, 105, 117, 115, 32, 82, 97, 100, 105, 111, 10>>],
    [key |-> (*"SLIFF"*) <<83, 76, 73, 70, 70>>, value |-> (*"OK:input:Audyssey Speaker Setup\n"*) <<79, 75, 58, 105, 110, 112, 117, 116, 58, 65, 117, 100, 121, 115, 115, 101, 121, 32, 83, 112, 101, 97, 107, 101, 114, 32, 83, 101, 116, 117, 112, 10>>],
    [key |-> (*"LMD00"*) <<76, 77, 68, 48, 48>>, value |-> (*"OK:mode:Stereo\n"*) <<79, 75, 58, 109, 111, 100, 101, 58, 83, 116, 101, 114, 101, 111, 10>>],
    [key |-> (*"LMD01"*) <<76, 77, 68, 48, 49>>, value |-> (*"OK:mode:Direct\n"*) <<79, 75, 58, 109, 111, 100, 101, 58, 68, 105, 114, 101, 99, 116, 10>>],
    [key |-> (*"LMD07"*) <<76, 77, 68, 48, 55>>, value |-> (*"OK:mode:Mono Movie\n"*) <<79, 75, 58, 109, 111, 100, 101, 58, 77, 111, 110, 111, 32, 77, 111, 118, 105, 101, 10>>],
    [key |-> (*"LMD08"*) <<76, 77, 68, 48, 56>>, value |-> (*"OK:mode:Orchestra\n"*) <<79, 75, 58, 109, 111, 100, 101, 58, 79, 114, 99, 104, 101, 115, 116, 114, 97, 10>>],
    [key |-> (*"LMD09"*) <<76, 77, 68, 48, 57>>, value |-> (*"OK:mode:Unplugged\n"*) <<79, 75, 58, 109, 111, 100, 101, 58, 85, 110, 112, 108, 117, 103, 103, 101, 100, 10>>],
    [key |-> (*"LMD0A"*) <<76, 77, 68, 48, 65>>, value |-> (*"OK:mode:Studio-Mix\n"*) <<79, 75, 58, 109, 111, 100, 101, 58, 83, 116, 117, 100, 105, 111, 45, 77, 105, 120, 10>>],
    [key |-> (*"LMD0B"*) <<76, 77, 68, 48, 66>>, value |-> (*"OK:mode:TV Logic\n"*) <<79, 75, 58, 109, 111, 100, 101, 58, 84, 86, 32, 76, 111, 103, 105, 99, 10>>],
    [key |-> (*"LMD0C"*) <<76, 77, 68, 48, 67>>, value |-> (*"OK:mode:All Channel Stereo\n"*) <<79, 75, 58, 109, 111, 100, 101, 58, 65, 108, 108, 32, 67, 104, 97, 110, 110, 101, 108, 32, 83, 116, 101, 114, 101, 111, 10>>],
    [key |-> (*"LMD0D"*) <<76, 77, 68, 48, 68>>, value |-> (*"OK:mode:Theater-Dimensional\n"*) <<79, 75, 58, 109, 111, 100, 101, 58, 84, 104, 101, 97, 116, 101, 114, 45, 68, 105, 109, 101, 110, 115, 105, 111, 110, 97, 108, 10>>],
    [key |-> (*"LMD0F"*) <<76, 77, 68, 48, 70>>, value |-> (*"OK:mode:Mono\n"*) <<79, 75, 58, 109, 111, 100, 101, 58, 77, 111, 110, 111, 10>>],
    [key |-> (*"LMD10"*) <<76, 77, 68, 49, 48>>, value |-> (*"OK:mode:Test Tone\n"*) <<79, 75, 58, 109, 111, 100, 101, 58, 84, 101, 115, 116, 32, 84, 111, 110, 101, 10>>],
    [key |-> (*"LMD11"*) <<76, 77, 68, 49, 49>>, value |-> (*"OK:mode:Pure Audio\n"*) <<79, 75, 58, 109, 111, 100, 101, 58, 80, 117, 114, 101, 32, 65, 117, 100, 105, 111, 10>>],
    [key |-> (*"LMD13"*) <<76, 77, 68, 49, 51>>, value |-> (*"OK:mode:Full Mono\n"*) <<79, 75, 58, 109, 111, 100, 101, 58, 70, 117, 108, 108, 32, 77, 111, 110, 111, 10>>],
    [key |-> (*"LMD15"*) <<76, 77, 68, 49, 53>>, value |-> (*"OK:mode:DTS Surround Sensation\n"*) <<79, 75, 58, 109, 111, 100, 101, 58, 68, 84, 83, 32, 83, 117, 114, 114, 111, 117, 110, 100, 32, 83, 101, 110, 115, 97, 116, 105, 111, 110, 10>>],
    [key |-> (*"LMD16"*) <<76, 77, 68, 49, 54>>, value |-> (*"OK:mode:Audyssey DSX\n"*) <<79, 75, 58, 109, 111, 100, 101, 58, 65, 117, 100, 121, 115, 115, 101, 121, 32, 68, 83, 88, 10>>],
    [key |-> (*"LMD40"*) <<76, 77, 68, 52, 48>>, value |-> (*"OK:mode:Straight Decode\n"*) <<79, 75, 58, 109, 111, 100, 101, 58, 83, 116, 114, 97, 105, 103, 104, 116, 32, 68, 101, 99, 111, 100, 101, 10>>],
    [key |-> (*"LMD41"*) <<76, 77, 68, 52, 49>>, value |-> (*"OK:mode:Dolby EX/DTS ES\n"*) <<79, 75, 58, 109, 111, 100, 101, 58, 68, 111, 108, 98, 121, 32, 69, 88, 47, 68, 84, 83, 32, 69, 83, 10>>],
    [key |-> (*"LMD42"*) <<76, 77, 68, 52, 50>>, value |-> (*"OK:mode:THX Cinema\n"*) <<79, 75, 58, 109, 111, 100, 101, 58, 84, 72, 88, 32, 67, 105, 110, 101, 109, 97, 10>>],
    [key |-> (*"LMD43"*) <<76, 77, 68, 52, 51>>, value |-> (*"OK:mode:THX Surround EX\n"*) <<79, 75, 58, 109, 111, 100, 101, 58, 84, 72, 88, 32, 83, 117, 114, 114, 111, 117, 110, 100, 32, 69, 88, 10>>],
    [key |-> (*"LMD44"*) <<76, 77, 68, 52, 52>>, value |-> (*"OK:mode:THX Music\n"*) <<79, 75, 58, 109, 111, 100, 101, 58, 84, 72, 88, 32, 77, 117, 115, 105, 99, 10>>],
    [key |-> (*"LMD45"*) <<76, 77, 68, 52, 53>>, value |-> (*"OK:mode:THX Games\n"*) <<79, 75, 58, 109, 111, 100, 101, 58, 84, 72, 88, 32, 71, 97, 109, 101, 115, 10>>],
    [key |-> (*"LMD80"*) <<76, 77, 68, 56, 48>>, value |-> (*"OK:mode:Pro Logic IIx Movie\n"*) <<79, 75, 58, 109, 111, 100, 101, 58, 80, 114, 111, 32, 76, 111, 103, 105, 99, 32, 73, 73, 120, 32, 77, 111, 118, 105, 101, 10>>],
    [key |-> (*"LMD81"*) <<76, 77, 68, 56, 49>>, value |-> (*"OK:mode:Pro Logic IIx Music\n"*) <<79, 75, 58, 109, 111, 100, 101, 58, 80, 114, 111, 32, 76, 111, 103, 105, 99, 32, 73, 73, 120, 32, 77, 117, 115, 105, 99, 10>>],
    [key |-> (*"LMD82"*) <<76, 77, 68, 56, 50>>, value |-> (*"OK:mode:Neo:6 Cinema\n"*) <<79, 75, 58, 109, 111, 100, 101, 58, 78, 101, 111, 58, 54, 32, 67, 105, 110, 101, 109, 97, 10>>],
    [key |-> (*"LMD83"*) <<76, 77, 68, 56, 51>>, value |-> (*"OK:mode:Neo:6 Music\n"*) <<79, 75, 58, 109, 111, 100, 101, 58, 78, 101, 111, 58, 54, 32, 77, 117, 115, 105, 99, 10>>],
    [key |-> (*"LMD84"*) <<76, 77, 68, 56, 52>>, value |-> (*"OK:mode:PLIIx THX Cinema\n"*) <<79, 75, 58, 109, 111, 100, 101, 58, 80, 76, 73, 73, 120, 32, 84, 72, 88, 32, 67, 105, 110, 101, 109, 97, 10>>],
    [key |-> (*"LMD85"*) <<76, 77, 68, 56, 53>>, value |-> (*"OK:mode:Neo:6 THX Cinema\n"*) <<79, 75, 58, 109, 111, 100, 101, 58, 78, 101, 111, 58, 54, 32, 84, 72, 88, 32, 67, 105, 110, 101, 109, 97, 10>>],
    [key |-> (*"LMD86"*) <<76, 77, 68, 56, 54>>, value |-> (*"OK:mode:Pro Logic IIx Game\n"*) <<79, 75, 58, 109, 111, 100, 101, 58, 80, 114, 111, 32, 76, 111, 103, 105, 99, 32, 73, 73, 120, 32, 71, 97, 109, 101, 10>>],
    [key |-> (*"LMD88"*) <<76, 77, 68, 56, 56>>, value |-> (*"OK:mode:Neural THX\n"*) <<79, 75, 58, 109, 111, 100, 101, 58, 78, 101, 117, 114, 97, 108, 32, 84, 72, 88, 10>>],
    [key |-> (*"LMDN/A"*) <<76, 77, 68, 78, 47, 65>>, value |-> (*"ERROR:mode:N/A\n"*) <<69, 82, 82, 79, 82, 58, 109, 111, 100, 101, 58, 78, 47, 65, 10>>],
    [key |-> (*"MEMLOCK"*) <<77, 69, 77, 76, 79, 67, 75>>, value |-> (*"OK:memory:locked\n"*) <<79, 75, 58, 109, 101, 109, 111, 114, 121, 58, 108, 111, 99, 107, 101, 100, 10>>],
    [key |-> (*"MEMUNLK"*) <<77, 69, 77, 85, 78, 76, 75>>, value |-> (*"OK:memory:unlocked\n"*) <<79, 75, 58, 109, 101, 109, 111, 114, 121, 58, 117, 110, 108, 111, 99, 107, 101, 100, 10>>],
    [key |-> (*"MEMN/A"*) <<77, 69, 77, 78, 47, 65>>, value |-> (*"ERROR:memory:N/A\n"*) <<69, 82, 82, 79, 82, 58, 109, 101, 109, 111, 114, 121, 58, 78, 47, 65, 10>>],
    [key |-> (*"ZMT00"*) <<90, 77, 84, 48, 48>>, value |-> (*"OK:zone2mute:off\n"*) <<79, 75, 58, 122, 111, 110, 101, 50, 109, 117, 116, 101, 58, 111, 102, 102, 10>>],
    [key |-> (*"ZMT01"*) <<90, 77, 84, 48, 49>>, value |-> (*"OK:zone2mute:on\n"*) <<79, 75, 58, 122, 111, 110, 101, 50, 109, 117, 116, 101, 58, 111, 110, 10>>],
    [key |-> (*"ZVLN/A"*) <<90, 86, 76, 78, 47, 65>>, value |-> (*"ERROR:zone2volume:N/A\n"*) <<69, 82, 82, 79, 82, 58, 122, 111, 110, 101, 50, 118, 111, 108, 117, 109, 101, 58, 78, 47, 65, 10>>],
    [key |-> (*"SLZ00"*) <<83, 76, 90, 48, 48>>, value |-> (*"OK:zone2input:DVR\n"*) <<79, 75, 58, 122, 111, 110, 101, 50, 105, 110, 112, 117, 116, 58, 68, 86, 82, 10>>],
    [key |-> (*"SLZ01"*) <<83, 76, 90, 48, 49>>, value |-> (*"OK:zone2input:Cable\n"*) <<79, 75, 58, 122, 111, 110, 101, 50, 105, 110, 112, 117, 116, 58, 67, 97, 98, 108, 101, 10>>],
    [key |-> (*"SLZ02"*) <<83, 76, 90, 48, 50>>, value |-> (*"OK:zone2input:TV\n"*) <<79, 75, 58, 122, 111, 110, 101, 50, 105, 110, 112, 117, 116, 58, 84, 86, 10>>],
    [key |-> (*"SLZ03"*) <<83, 76, 90, 48, 51>>, value |-> (*"OK:zone2input:AUX\n"*) <<79, 75, 58, 122, 111, 110, 101, 50, 105, 110, 112, 117, 116, 58, 65, 85, 88, 10>>],
    [key |-> (*"SLZ04"*) <<83, 76, 90, 48, 52>>, value |-> (*"OK:zone2input:AUX2\n"*) <<79, 75, 58, 122, 111, 110, 101, 50, 105, 110, 112, 117, 116, 58, 65, 85, 88, 50, 10>>],
    [key |-> (*"SLZ10"*) <<83, 76, 90, 49, 48>>, value |-> (*"OK:zone2input:DVD\n"*) <<79, 75, 58, 122, 111, 110, 101, 50, 105, 110, 112, 117, 116, 58, 68, 86, 68, 10>>],
    [key |-> (*"SLZ20"*) <<83, 76, 90, 50, 48>>, value |-> (*"OK:zone2input:Tape\n"*) <<79, 75, 58, 122, 111, 110, 101, 50, 105, 110, 112, 117, 116, 58, 84, 97, 112, 101, 10>>],
    [key |-> (*"SLZ22"*) <<83, 76, 90, 50, 50>>, value |-> (*"OK:zone2input:Phono\n"*) <<79, 75, 58, 122, 111, 110, 101, 50, 105, 110, 112, 117, 116, 58, 80, 104, 111, 110, 111, 10>>],
    [key |-> (*"SLZ23"*) <<83, 76, 90, 50, 51>>, value |-> (*"OK:zone2input:CD\n"*) <<79, 75, 58, 122, 111, 110, 101, 50, 105, 110, 112, 117, 116, 58, 67, 68, 10>>],
    [key |-> (*"SLZ24"*) <<83, 76, 90, 50, 52>>, value |-> (*"OK:zone2input:FM Tuner\n"*) <<79, 75, 58, 122, 111, 110, 101, 50, 105, 110, 112, 117, 116, 58, 70, 77, 32, 84, 117, 110, 101, 114, 10>>],
    [key |-> (*"SLZ25"*) <<83, 76, 90, 50, 53>>, value |-> (*"OK:zone2input:AM Tuner\n"*) <<79, 75, 58, 122, 111, 110, 101, 50, 105, 110, 112, 117, 116, 58, 65, 77, 32, 84, 117, 110, 101, 114, 10>>],
    [key |-> (*"SLZ26"*) <<83, 76, 90, 50, 54>>, value |-> (*"OK:zone2input:Tuner\n"*) <<79, 75, 58, 122, 111, 110, 101, 50, 105, 110, 112, 117, 116, 58, 84, 117, 110, 101, 114, 10>>],
    [key |-> (*"SLZ30"*) <<83, 76, 90, 51, 48>>, value |-> (*"OK:zone2input:Multichannel\n"*) <<79, 75, 58, 122, 111, 110, 101, 50, 105, 110, 112, 117, 116, 58, 77, 117, 108, 116, 105, 99, 104, 97, 110, 110, 101, 108, 10>>],
    [key |-> (*"SLZ31"*) <<83, 76, 90, 51, 49>>, value |-> (*"OK:zone2input:XM Radio\n"*) <<79, 75, 58, 122, 111, 110, 101, 50, 105, 110, 112, 117, 116, 58, 88, 77, 32, 82, 97, 100, 105, 111, 10>>],
    [key |-> (*"SLZ32"*) <<83, 76, 90, 51, 50>>, value |-> (*"OK:zone2input:Sirius Radio\n"*) <<79, 75, 58, 122, 111, 110, 101, 50, 105, 110, 112, 117, 116, 58, 83, 105, 114, 105, 117, 115, 32, 82, 97, 100, 105, 111, 10>>],
    [key |-> (*"SLZ7F"*) <<83, 76, 90, 55, 70>>, value |-> (*"OK:zone2input:Off\n"*) <<79, 75, 58, 122, 111, 110, 101, 50, 105, 110, 112, 117, 116, 58, 79, 102, 102, 10>>],
    [key |-> (*"SLZ80"*) <<83, 76, 90, 56, 48>>, value |-> (*"OK:zone2input:Source\n"*) <<79, 75, 58, 122, 111, 110, 101, 50, 105, 110, 112, 117, 116, 58, 83, 111, 117, 114, 99, 101, 10>>],
    [key |-> (*"MT300"*) <<77, 84, 51, 48, 48>>, value |-> (*"OK:zone3mute:off\n"*) <<79, 75, 58, 122, 111, 110, 101, 51, 109, 117, 116, 101, 58, 111, 102, 102, 10>>],
    [key |-> (*"MT301"*) <<77, 84, 51, 48, 49>>, value |-> (*"OK:zone3mute:on\n"*) <<79, 75, 58, 122, 111, 110, 101, 51, 109, 117, 116, 101, 58, 111, 110, 10>>],
    [key |-> (*"VL3N/A"*) <<86, 76, 51, 78, 47, 65>>, value |-> (*"ERROR:zone3volume:N/A\n"*) <<69, 82, 82, 79, 82, 58, 122, 111, 110, 101, 51, 118, 111, 108, 117, 109, 101, 58, 78, 47, 65, 10>>],
    [key |-> (*"SL300"*) <<83, 76, 51, 48, 48>>, value |-> (*"OK:zone3input:DVR\n"*) <<79, 75, 58, 122, 111, 110, 101, 51, 105, 110, 112, 117, 116, 58, 68, 86, 82, 10>>],
    [key |-> (*"SL301"*) <<83, 76, 51, 48, 49>>, value |-> (*"OK:zone3input:Cable\n"*) <<79, 75, 58, 122, 111, 110, 101, 51, 105, 110, 112, 117, 116, 58, 67, 97, 98, 108, 101, 10>>],
    [key |-> (*"SL302"*) <<83, 76, 51, 48, 50>>, value |-> (*"OK:zone3input:TV\n"*) <<79, 75, 58, 122, 111, 110, 101, 51, 105, 110, 112, 117, 116, 58, 84, 86, 10>>],
    [key |-> (*"SL303"*) <<83, 76, 51, 48, 51>>, value |-> (*"OK:zone3input:AUX\n"*) <<79, 75, 58, 122, 111, 110, 101, 51, 105, 110, 112, 117, 116, 58, 65, 85, 88, 10>>],
    [key |-> (*"SL304"*) <<83, 76, 51, 48, 52>>, value |-> (*"OK:zone3input:AUX2\n"*) <<79, 75, 58, 122, 111, 110, 101, 51, 105, 110, 112, 117, 116, 58, 65, 85, 88, 50, 10>>],
    [key |-> (*"SL310"*) <<83, 76, 51, 49, 48>>, value |-> (*"OK:zone3input:DVD\n"*) <<79, 75, 58, 122, 111, 110, 101, 51, 105, 110, 112, 117, 116, 58, 68, 86, 68, 10>>],
    [key |-> (*"SL320"*) <<83, 76, 51, 50, 48>>, value |-> (*"OK:zone3input:Tape\n"*) <<79, 75, 58, 122, 111, 110, 101, 51, 105, 110, 112, 117, 116, 58, 84, 97, 112, 101, 10>>],
    [key |-> (*"SL322"*) <<83, 76, 51, 50, 50>>, value |-> (*"OK:zone3input:Phono\n"*) <<79, 75, 58, 122, 111, 110, 101, 51, 105, 110, 112, 117, 116, 58, 80, 104, 111, 110, 111, 10>>],
    [key |-> (*"SL323"*) <<83, 76, 51, 50, 51>>, value |-> (*"OK:zone3input:CD\n"*) <<79, 75, 58, 122, 111, 110, 101, 51, 105, 110, 112, 117, 116, 58, 67, 68, 10>>],
    [key |-> (*"SL324"*) <<83, 76, 51, 50, 52>>, value |-> (*"OK:zone3input:FM Tuner\n"*) <<79, 75, 58, 122, 111, 110, 101, 51, 105, 110, 112, 117, 116, 58, 70, 77, 32, 84, 117, 110, 101, 114, 10>>],
    [key |-> (*"SL325"*) <<83, 76, 51, 50, 53>>, value |-> (*"OK:zone3input:AM Tuner\n"*) <<79, 75, 58, 122, 111, 110, 101, 51, 105, 110, 112, 117, 116, 58, 65, 77, 32, 84, 117, 110, 101, 114, 10>>],
    [key |-> (*"SL326"*) <<83, 76, 51, 50, 54>>, value |-> (*"OK:zone3input:Tuner\n"*) <<79, 75, 58, 122, 111, 110, 101, 51, 105, 110, 112, 117, 116, 58, 84, 117, 110, 101, 114, 10>>],
    [key |-> (*"SL330"*) <<83, 76, 51, 51, 48>>, value |-> (*"OK:zone3input:Multichannel\n"*) <<79, 75, 58, 122, 111, 110, 101, 51, 105, 110, 112, 117, 116, 58, 77, 117, 108, 116, 105, 99, 104, 97, 110, 110, 101, 108, 10>>],
    [key |-> (*"SL331"*) <<83, 76, 51, 51, 49>>, value |-> (*"OK:zone3input:XM Radio\n"*) <<79, 75, 58, 122, 111, 110, 101, 51, 105, 110, 112, 117, 116, 58, 88, 77, 32, 82, 97, 100, 105, 111, 10>>],
    [key |-> (*"SL332"*) <<83, 76, 51, 51, 50>>, value |-> (*"OK:zone3input:Sirius Radio\n"*) <<79, 75, 58, 122, 111, 110, 101, 51, 105, 110, 112, 117, 116, 58, 83, 105, 114, 105, 117, 115, 32, 82, 97, 100, 105, 111, 10>>],
    [key |-> (*"SL37F"*) <<83, 76, 51, 55, 70>>, value |-> (*"OK:zone3input:Off\n"*) <<79, 75, 58, 122, 111, 110, 101, 51, 105, 110, 112, 117, 116, 58, 79, 102, 102, 10>>],
    [key |-> (*"SL380"*) <<83, 76, 51, 56, 48>>, value |-> (*"OK:zone3input:Source\n"*) <<79, 75, 58, 122, 111, 110, 101, 51, 105, 110, 112, 117, 116, 58, 83, 111, 117, 114, 99, 101, 10>>],
    [key |-> (*"DIF00"*) <<68, 73, 70, 48, 48>>, value |-> (*"OK:display:Volume\n"*) <<79, 75, 58, 100, 105, 115, 112, 108, 97, 121, 58, 86, 111, 108, 117, 109, 101, 10>>],
    [key |-> (*"DIF01"*) <<68, 73, 70, 48, 49>>, value |-> (*"OK:display:Mode\n"*) <<79, 75, 58, 100, 105, 115, 112, 108, 97, 121, 58, 77, 111, 100, 101, 10>>],
    [key |-> (*"DIF02"*) <<68, 73, 70, 48, 50>>, value |-> (*"OK:display:Digital Format\n"*) <<79, 75, 58, 100, 105, 115, 112, 108, 97, 121, 58, 68, 105, 103, 105, 116, 97, 108, 32, 70, 111, 114, 109, 97, 116, 10>>],
    [key |-> (*"DIFN/A"*) <<68, 73, 70, 78, 47, 65>>, value |-> (*"ERROR:display:N/A\n"*) <<69, 82, 82, 79, 82, 58, 100, 105, 115, 112, 108, 97, 121, 58, 78, 47, 65, 10>>],
    [key |-> (*"DIM00"*) <<68, 73, 77, 48, 48>>, value |-> (*"OK:dimmer:Bright\n"*) <<79, 75, 58, 100, 105, 109, 109, 101, 114, 58, 66, 114, 105, 103, 104, 116, 10>>],
    [key |-> (*"DIM01"*) <<68, 73, 77, 48, 49>>, value |-> (*"OK:dimmer:Dim\n"*) <<79, 75, 58, 100, 105, 109, 109, 101, 114, 58, 68, 105, 109, 10>>],
    [key |-> (*"DIM02"*) <<68, 73, 77, 48, 50>>, value |-> (*"OK:dimmer:Dark\n"*) <<79, 75, 58, 100, 105, 109, 109, 101, 114, 58, 68, 97, 114, 107, 10>>],
    [key |-> (*"DIM03"*) <<68, 73, 77, 48, 51>>, value |-> (*"OK:dimmer:Shut-off\n"*) <<79, 75, 58, 100, 105, 109, 109, 101, 114, 58, 83, 104, 117, 116, 45, 111, 102, 102, 10>>],
    [key |-> (*"DIM08"*) <<68, 73, 77, 48, 56>>, value |-> (*"OK:dimmer:Bright (LED off)\n"*) <<79, 75, 58, 100, 105, 109, 109, 101, 114, 58, 66, 114, 105, 103, 104, 116, 32, 40, 76, 69, 68, 32, 111, 102, 102, 41, 10>>],
    [key |-> (*"DIMN/A"*) <<68, 73, 77, 78, 47, 65>>, value |-> (*"ERROR:dimmer:N/A\n"*) <<69, 82, 82, 79, 82, 58, 100, 105, 109, 109, 101, 114, 58, 78, 47, 65, 10>>],
    [key |-> (*"LTN00"*) <<76, 84, 78, 48, 48>>, value |-> (*"OK:latenight:off\n"*) <<79, 75, 58, 108, 97, 116, 101, 110, 105, 103, 104, 116, 58, 111, 102, 102, 10>>],
    [key |-> (*"LTN01"*) <<76, 84, 78, 48, 49>>, value |-> (*"OK:latenight:low\n"*) <<79, 75, 58, 108, 97, 116, 101, 110, 105, 103, 104, 116, 58, 108, 111, 119, 10>>],
    [key |-> (*"LTN02"*) <<76, 84, 78, 48, 50>>, value |-> (*"OK:latenight:high\n"*) <<79, 75, 58, 108, 97, 116, 101, 110, 105, 103, 104, 116, 58, 104, 105, 103, 104, 10>>],
    [key |-> (*"RAS00"*) <<82, 65, 83, 48, 48>>, value |-> (*"OK:re-eq:off\n"*) <<79, 75, 58, 114, 101, 45, 101, 113, 58, 111, 102, 102, 10>>],
    [key |-> (*"RAS01"*) <<82, 65, 83, 48, 49>>, value |-> (*"OK:re-eq:on\n"*) <<79, 75, 58, 114, 101, 45, 101, 113, 58, 111, 110, 10>>],
    [key |-> (*"ADY00"*) <<65, 68, 89, 48, 48>>, value |-> (*"OK:audyssey:off\n"*) <<79, 75, 58, 97, 117, 100, 121, 115, 115, 101, 121, 58, 111, 102, 102, 10>>],
    [key |-> (*"ADY01"*) <<65, 68, 89, 48, 49>>, value |-> (*"OK:audyssey:on\n"*) <<79, 75, 58, 97, 117, 100, 121, 115, 115, 101, 121, 58, 111, 110, 10>>],
    [key |-> (*"ADQ00"*) <<65, 68, 81, 48, 48>>, value |-> (*"OK:dynamiceq:off\n"*) <<79, 75, 58, 100, 121, 110, 97, 109, 105, 99, 101, 113, 58, 111, 102, 102, 10>>],
    [key |-> (*"ADQ01"*) <<65, 68, 81, 48, 49>>, value |-> (*"OK:dynamiceq:on\n"*) <<79, 75, 58, 100, 121, 110, 97, 109, 105, 99, 101, 113, 58, 111, 110, 10>>],
    [key |-> (*"HDO00"*) <<72, 68, 79, 48, 48>>, value |-> (*"OK:hdmiout:off\n"*) <<79, 75, 58, 104, 100, 109, 105, 111, 117, 116, 58, 111, 102, 102, 10>>],
    [key |-> (*"HDO01"*) <<72, 68, 79, 48, 49>>, value |-> (*"OK:hdmiout:on\n"*) <<79, 75, 58, 104, 100, 109, 105, 111, 117, 116, 58, 111, 110, 10>>],
    [key |-> (*"RES00"*) <<82, 69, 83, 48, 48>>, value |-> (*"OK:resolution:Through\n"*) <<79, 75, 58, 114, 101, 115, 111, 108, 117, 116, 105, 111, 110, 58, 84, 104, 114, 111, 117, 103, 104, 10>>],
    [key |-> (*"RES01"*) <<82, 69, 83, 48, 49>>, value |-> (*"OK:resolution:Auto\n"*) <<79, 75, 58, 114, 101, 115, 111, 108, 117, 116, 105, 111, 110, 58, 65, 117, 116, 111, 10>>],
    [key |-> (*"RES02"*) <<82, 69, 83, 48, 50>>, value |-> (*"OK:resolution:480p\n"*) <<79, 75, 58, 114, 101, 115, 111, 108, 117, 116, 105, 111, 110, 58, 52, 56, 48, 112, 10>>],
    [key |-> (*"RES03"*) <<82, 69, 83, 48, 51>>, value |-> (*"OK:resolution:720p\n"*) <<79, 75, 58, 114, 101, 115, 111, 108, 117, 116, 105, 111, 110, 58, 55, 50, 48, 112, 10>>],
    [key |-> (*"RES04"*) <<82, 69, 83, 48, 52>>, value |-> (*"OK:resolution:1080i\n"*) <<79, 75, 58, 114, 101, 115, 111, 108, 117, 116, 105, 111, 110, 58, 49, 48, 56, 48, 105, 10>>],
    [key |-> (*"RES05"*) <<82, 69, 83, 48, 53>>, value |-> (*"OK:resolution:1080p\n"*) <<79, 75, 58, 114, 101, 115, 111, 108, 117, 116, 105, 111, 110, 58, 49, 48, 56, 48, 112, 10>>],
    [key |-> (*"SLA00"*) <<83, 76, 65, 48, 48>>, value |-> (*"OK:audioselector:Auto\n"*) <<79, 75, 58, 97, 117, 100, 105, 111, 115, 101, 108, 101, 99, 116, 111, 114, 58, 65, 117, 116, 111, 10>>],
    [key |-> (*"SLA01"*) <<83, 76, 65, 48, 49>>, value |-> (*"OK:audioselector:Multichannel\n"*) <<79, 75, 58, 97, 117, 100, 105, 111, 115, 101, 108, 101, 99, 116, 111, 114, 58, 77, 117, 108, 116, 105, 99, 104, 97, 110, 110, 101, 108, 10>>],
    [key |-> (*"SLA02"*) <<83, 76, 65, 48, 50>>, value |-> (*"OK:audioselector:Analog\n"*) <<79, 75, 58, 97, 117, 100, 105, 111, 115, 101, 108, 101, 99, 116, 111, 114, 58, 65, 110, 97, 108, 111, 103, 10>>],
    [key |-> (*"SLA03"*) <<83, 76, 65, 48, 51>>, value |-> (*"OK:audioselector:iLink\n"*) <<79, 75, 58, 97, 117, 100, 105, 111, 115, 101, 108, 101, 99, 116, 111, 114, 58, 105, 76, 105, 110, 107, 10>>],
    [key |-> (*"SLA04"*) <<83, 76, 65, 48, 52>>, value |-> (*"OK:audioselector:HDMI\n"*) <<79, 75, 58, 97, 117, 100, 105, 111, 115, 101, 108, 101, 99, 116, 111, 114, 58, 72, 68, 77, 73, 10>>],
    [key |-> (*"TGA00"*) <<84, 71, 65, 48, 48>>, value |-> (*"OK:triggera:off\n"*) <<79, 75, 58, 116, 114, 105, 103, 103, 101, 114, 97, 58, 111, 102, 102, 10>>],
    [key |-> (*"TGA01"*) <<84, 71, 65, 48, 49>>, value |-> (*"OK:triggera:on\n"*) <<79, 75, 58, 116, 114, 105, 103, 103, 101, 114, 97, 58, 111, 110, 10>>],
    [key |-> (*"TGAN/A"*) <<84, 71, 65, 78, 47, 65>>, value |-> (*"ERROR:triggera:N/A\n"*) <<69, 82, 82, 79, 82, 58, 116, 114, 105, 103, 103, 101, 114, 97, 58, 78, 47, 65, 10>>],
    [key |-> (*"TGB00"*) <<84, 71, 66, 48, 48>>, value |-> (*"OK:triggerb:off\n"*) <<79, 75, 58, 116, 114, 105, 103, 103, 101, 114, 98, 58, 111, 102, 102, 10>>],
    [key |-> (*"TGB01"*) <<84, 71, 66, 48, 49>>, value |-> (*"OK:triggerb:on\n"*) <<79, 75, 58, 116, 114, 105, 103, 103, 101, 114, 98, 58, 111, 110, 10>>],
    [key |-> (*"TGBN/A"*) <<84, 71, 66, 78, 47, 65>>, value |-> (*"ERROR:triggerb:N/A\n"*) <<69, 82, 82, 79, 82, 58, 116, 114, 105, 103, 103, 101, 114, 98, 58, 78, 47, 65, 10>>],
    [key |-> (*"TGC00"*) <<84, 71, 67, 48, 48>>, value |-> (*"OK:triggerc:off\n"*) <<79, 75, 58, 116, 114, 105, 103, 103, 101, 114, 99, 58, 111, 102, 102, 10>>],
    [key |-> (*"TGC01"*) <<84, 71, 67, 48, 49>>, value |-> (*"OK:triggerc:on\n"*) <<79, 75, 58, 116, 114, 105, 103, 103, 101, 114, 99, 58, 111, 110, 10>>],
    [key |-> (*"TGCN/A"*) <<84, 71, 67, 78, 47, 65>>, value |-> (*"ERROR:triggerc:N/A\n"*) <<69, 82, 82, 79, 82, 58, 116, 114, 105, 103, 103, 101, 114, 99, 58, 78, 47, 65, 10>>]
>>

power_statuses == <<
    [key |-> (*"PWR00"*) <<80, 87, 82, 48, 48>>, value |-> (*"OK:power:off\n"*) <<79, 75, 58, 112, 111, 119, 101, 114, 58, 111, 102, 102, 10>>, zone |-> 1, power |-> 0],
    [key |-> (*"PWR01"*) <<80, 87, 82, 48, 49>>, value |-> (*"OK:power:on\n"*) <<79, 75, 58, 112, 111, 119, 101, 114, 58, 111, 110, 10>>, zone |-> 1, power |-> 1],
    [key |-> (*"ZPW00"*) <<90, 80, 87, 48, 48>>, value |-> (*"OK:zone2power:off\n"*) <<79, 75, 58, 122, 111, 110, 101, 50, 112, 111, 119, 101, 114, 58, 111, 102, 102, 10>>, zone |-> 2, power |-> 0],
    [key |-> (*"ZPW01"*) <<90, 80, 87, 48, 49>>, value |-> (*"OK:zone2power:on\n"*) <<79, 75, 58, 122, 111, 110, 101, 50, 112, 111, 119, 101, 114, 58, 111, 110, 10>>, zone |-> 2, power |-> 1],
    [key |-> (*"PW300"*) <<80, 87, 51, 48, 48>>, value |-> (*"OK:zone3power:off\n"*) <<79, 75, 58, 122, 111, 110, 101, 51, 112, 111, 119, 101, 114, 58, 111, 102, 102, 10>>, zone |-> 3, power |-> 0],
    [key |-> (*"PW301"*) <<80, 87, 51, 48, 49>>, value |-> (*"OK:zone3power:on\n"*) <<79, 75, 58, 122, 111, 110, 101, 51, 112, 111, 119, 101, 114, 58, 111, 110, 10>>, zone |-> 3, power |-> 1]
>>

(***************************************************************************)
(* command.c: the command list and the code maps.  init_commands() stores  *)
(* the hash of each name and key.                                          *)
(***************************************************************************)
inputs == <<
    [key |-> (*"DVR"*) <<68, 86, 82>>, value |-> (*"00"*) <<48, 48>>],
    [key |-> (*"VCR"*) <<86, 67, 82>>, value |-> (*"00"*) <<48, 48>>],
    [key |-> (*"CABLE"*) <<67, 65, 66, 76, 69>>, value |-> (*"01"*) <<48, 49>>],
    [key |-> (*"SAT"*) <<83, 65, 84>>, value |-> (*"01"*) <<48, 49>>],
    [key |-> (*"TV"*) <<84, 86>>, value |-> (*"02"*) <<48, 50>>],
    [key |-> (*"AUX"*) <<65, 85, 88>>, value |-> (*"03"*) <<48, 51>>],
    [key |-> (*"AUX2"*) <<65, 85, 88, 50>>, value |-> (*"04"*) <<48, 52>>],
    [key |-> (*"PC"*) <<80, 67>>, value |-> (*"05"*) <<48, 53>>],
    [key |-> (*"DVD"*) <<68, 86, 68>>, value |-> (*"10"*) <<49, 48>>],
    [key |-> (*"TAPE"*) <<84, 65, 80, 69>>, value |-> (*"20"*) <<50, 48>>],
    [key |-> (*"PHONO"*) <<80, 72, 79, 78, 79>>, value |-> (*"22"*) <<50, 50>>],
    [key |-> (*"CD"*) <<67, 68>>, value |-> (*"23"*) <<50, 51>>],
    [key |-> (*"FM"*) <<70, 77>>, value |-> (*"24"*) <<50, 52>>],
    [key |-> (*"FM TUNER"*) <<70, 77, 32, 84, 85, 78, 69, 82>>, value |-> (*"24"*) <<50, 52>>],
    [key |-> (*"AM"*) <<65, 77>>, value |-> (*"25"*) <<50, 53>>],
    [key |-> (*"AM TUNER"*) <<65, 77, 32, 84, 85, 78, 69, 82>>, value |-> (*"25"*) <<50, 53>>],
    [key |-> (*"TUNER"*) <<84, 85, 78, 69, 82>>, value |-> (*"26"*) <<50, 54>>],
    [key |-> (*"MUSIC SERVER"*) <<77, 85, 83, 73, 67, 32, 83, 69, 82, 86, 69, 82>>, value |-> (*"27"*) <<50, 55>>],
    [key |-> (*"SERVER"*) <<83, 69, 82, 86, 69, 82>>, value |-> (*"27"*) <<50, 55>>],
    [key |-> (*"IRADIO"*) <<73, 82, 65, 68, 73, 79>>, value |-> (*"28"*) <<50, 56>>],
    [key |-> (*"USB"*) <<85, 83, 66>>, value |-> (*"29"*) <<50, 57>>],
    [key |-> (*"USB REAR"*) <<85, 83, 66, 32, 82, 69, 65, 82>>, value |-> (*"2A"*) <<50, 65>>],
    [key |-> (*"PORT"*) <<80, 79, 82, 84>>, value |-> (*"40"*) <<52, 48>>],
    [key |-> (*"MULTICH"*) <<77, 85, 76, 84, 73, 67, 72>>, value |-> (*"30"*) <<51, 48>>],
    [key |-> (*"XM"*) <<88, 77>>, value |-> (*"31"*) <<51, 49>>],
    [key |-> (*"SIRIUS"*) <<83, 73, 82, 73, 85, 83>>, value |-> (*"32"*) <<51, 50>>]
>>

modes == <<
    [key |-> (*"STEREO"*) <<83, 84, 69, 82, 69, 79>>, value |-> (*"00"*) <<48, 48>>],
    [key |-> (*"DIRECT"*) <<68, 73, 82, 69, 67, 84>>, value |-> (*"01"*) <<48, 49>>],
    [key |-> (*"MONOMOVIE"*) <<77, 79, 78, 79, 77, 79, 86, 73, 69>>, value |-> (*"07"*) <<48, 55>>],
    [key |-> (*"ORCHESTRA"*) <<79, 82, 67, 72, 69, 83, 84, 82, 65>>, value |-> (*"08"*) <<48, 56>>],
    [key |-> (*"UNPLUGGED"*) <<85, 78, 80, 76, 85, 71, 71, 69, 68>>, value |-> (*"09"*) <<48, 57>>],
    [key |-> (*"STUDIOMIX"*) <<83, 84, 85, 68, 73, 79, 77, 73, 88>>, value |-> (*"0A"*) <<48, 65>>],
    [key |-> (*"TVLOGIC"*) <<84, 86, 76, 79, 71, 73, 67>>, value |-> (*"0B"*) <<48, 66>>],
    [key |-> (*"ACSTEREO"*) <<65, 67, 83, 84, 69, 82, 69, 79>>, value |-> (*"0C"*) <<48, 67>>],
    [key |-> (*"THEATERD"*) <<84, 72, 69, 65, 84, 69, 82, 68>>, value |-> (*"0D"*) <<48, 68>>],
    [key |-> (*"MONO"*) <<77, 79, 78, 79>>, value |-> (*"0F"*) <<48, 70>>],
    [key |-> (*"PURE"*) <<80, 85, 82, 69>>, value |-> (*"11"*) <<49, 49>>],
    [key |-> (*"FULLMONO"*) <<70, 85, 76, 76, 77, 79, 78, 79>>, value |-> (*"13"*) <<49, 51>>],
    [key |-> (*"DTSSS"*) <<68, 84, 83, 83, 83>>, value |-> (*"15"*) <<49, 53>>],
    [key |-> (*"DSX"*) <<68, 83, 88>>, value |-> (*"16"*) <<49, 54>>],
    [key |-> (*"STRAIGHT"*) <<83, 84, 82, 65, 73, 71, 72, 84>>, value |-> (*"40"*) <<52, 48>>],
    [key |-> (*"DOLBYEX"*) <<68, 79, 76, 66, 89, 69, 88>>, value |-> (*"41"*) <<52, 49>>],
    [key |-> (*"DTSES"*) <<68, 84, 83, 69, 83>>, value |-> (*"41"*) <<52, 49>>],
    [key |-> (*"THX"*) <<84, 72, 88>>, value |-> (*"42"*) <<52, 50>>],
    [key |-> (*"THXEX"*) <<84, 72, 88, 69, 88>>, value |-> (*"43"*) <<52, 51>>],
    [key |-> (*"THXMUSIC"*) <<84, 72, 88, 77, 85, 83, 73, 67>>, value |-> (*"44"*) <<52, 52>>],
    [key |-> (*"THXGAMES"*) <<84, 72, 88, 71, 65, 77, 69, 83>>, value |-> (*"45"*) <<52, 53>>],
    [key |-> (*"PLIIMOVIE"*) <<80, 76, 73, 73, 77, 79, 86, 73, 69>>, value |-> (*"80"*) <<56, 48>>],
    [key |-> (*"PLIIMUSIC"*) <<80, 76, 73, 73, 77, 85, 83, 73, 67>>, value |-> (*"81"*) <<56, 49>>],
    [key |-> (*"NEO6CINEMA"*) <<78, 69, 79, 54, 67, 73, 78, 69, 77, 65>>, value |-> (*"82"*) <<56, 50>>],
    [key |-> (*"NEO6MUSIC"*) <<78, 69, 79, 54, 77, 85, 83, 73, 67>>, value |-> (*"83"*) <<56, 51>>],
    [key |-> (*"PLIITHX"*) <<80, 76, 73, 73, 84, 72, 88>>, value |-> (*"84"*) <<56, 52>>],
    [key |-> (*"NEO6THX"*) <<78, 69, 79, 54, 84, 72, 88>>, value |-> (*"85"*) <<56, 53>>],
    [key |-> (*"PLIIGAME"*) <<80, 76, 73, 73, 71, 65, 77, 69>>, value |-> (*"86"*) <<56, 54>>],
    [key |-> (*"NEURALTHX"*) <<78, 69, 85, 82, 65, 76, 84, 72, 88>>, value |-> (*"88"*) <<56, 56>>]
>>

command_list == <<
    [name |-> (*"power"*) <<112, 111, 119, 101, 114>>, prefix |-> (*"PWR"*) <<80, 87, 82>>, handler |-> "handle_boolean"],
    [name |-> (*"volume"*) <<118, 111, 108, 117, 109, 101>>, prefix |-> (*"MVL"*) <<77, 86, 76>>, handler |-> "handle_volume"],
    [name |-> (*"dbvolume"*) <<100, 98, 118, 111, 108, 117, 109, 101>>, prefix |-> (*"MVL"*) <<77, 86, 76>>, handler |-> "handle_dbvolume"],
    [name |-> (*"mute"*) <<109, 117, 116, 101>>, prefix |-> (*"AMT"*) <<65, 77, 84>>, handler |-> "handle_boolean"],
    [name |-> (*"input"*) <<105, 110, 112, 117, 116>>, prefix |-> (*"SLI"*) <<83, 76, 73>>, handler |-> "handle_input"],
    [name |-> (*"mode"*) <<109, 111, 100, 101>>, prefix |-> (*"LMD"*) <<76, 77, 68>>, handler |-> "handle_mode"],
    [name |-> (*"tune"*) <<116, 117, 110, 101>>, prefix |-> (*"TUN"*) <<84, 85, 78>>, handler |-> "handle_tune"],
    [name |-> (*"preset"*) <<112, 114, 101, 115, 101, 116>>, prefix |-> (*"PRS"*) <<80, 82, 83>>, handler |-> "handle_preset"],
    [name |-> (*"swlevel"*) <<115, 119, 108, 101, 118, 101, 108>>, prefix |-> (*"SWL"*) <<83, 87, 76>>, handler |-> "handle_swlevel"],
    [name |-> (*"avsync"*) <<97, 118, 115, 121, 110, 99>>, prefix |-> (*"AVS"*) <<65, 86, 83>>, handler |-> "handle_avsync"],
    [name |-> (*"memory"*) <<109, 101, 109, 111, 114, 121>>, prefix |-> (*"MEM"*) <<77, 69, 77>>, handler |-> "handle_memory"],
    [name |-> (*"audyssey"*) <<97, 117, 100, 121, 115, 115, 101, 121>>, prefix |-> (*"ADY"*) <<65, 68, 89>>, handler |-> "handle_boolean"],
    [name |-> (*"dyneq"*) <<100, 121, 110, 101, 113>>, prefix |-> (*"ADQ"*) <<65, 68, 81>>, handler |-> "handle_boolean"],
    [name |-> (*"status"*) <<115, 116, 97, 116, 117, 115>>, prefix |-> NULL, handler |-> "handle_status"],
    [name |-> (*"zone2power"*) <<122, 111, 110, 101, 50, 112, 111, 119, 101, 114>>, prefix |-> (*"ZPW"*) <<90, 80, 87>>, handler |-> "handle_boolean"],
    [name |-> (*"zone2volume"*) <<122, 111, 110, 101, 50, 118, 111, 108, 117, 109, 101>>, prefix |-> (*"ZVL"*) <<90, 86, 76>>, handler |-> "handle_volume"],
    [name |-> (*"zone2dbvolume"*) <<122, 111, 110, 101, 50, 100, 98, 118, 111, 108, 117, 109, 101>>, prefix |-> (*"ZVL"*) <<90, 86, 76>>, handler |-> "handle_dbvolume"],
    [name |-> (*"zone2mute"*) <<122, 111, 110, 101, 50, 109, 117, 116, 101>>, prefix |-> (*"ZMT"*) <<90, 77, 84>>, handler |-> "handle_boolean"],
    [name |-> (*"zone2input"*) <<122, 111, 110, 101, 50, 105, 110, 112, 117, 116>>, prefix |-> (*"SLZ"*) <<83, 76, 90>>, handler |-> "handle_input"],
    [name |-> (*"zone2tune"*) <<122, 111, 110, 101, 50, 116, 117, 110, 101>>, prefix |-> (*"TUZ"*) <<84, 85, 90>>, handler |-> "handle_tune"],
    [name |-> (*"zone2preset"*) <<122, 111, 110, 101, 50, 112, 114, 101, 115, 101, 116>>, prefix |-> (*"PRZ"*) <<80, 82, 90>>, handler |-> "handle_preset"],
    [name |-> (*"zone2status"*) <<122, 111, 110, 101, 50, 115, 116, 97, 116, 117, 115>>, prefix |-> NULL, handler |-> "handle_status"],
    [name |-> (*"zone3power"*) <<122, 111, 110, 101, 51, 112, 111, 119, 101, 114>>, prefix |-> (*"PW3"*) <<80, 87, 51>>, handler |-> "handle_boolean"],
    [name |-> (*"zone3volume"*) <<122, 111, 110, 101, 51, 118, 111, 108, 117, 109, 101>>, prefix |-> (*"VL3"*) <<86, 76, 51>>, handler |-> "handle_volume"],
    [name |-> (*"zone3dbvolume"*) <<122, 111, 110, 101, 51, 100, 98, 118, 111, 108, 117, 109, 101>>, prefix |-> (*"VL3"*) <<86, 76, 51>>, handler |-> "handle_dbvolume"],
    [name |-> (*"zone3mute"*) <<122, 111, 110, 101, 51, 109, 117, 116, 101>>, prefix |-> (*"MT3"*) <<77, 84, 51>>, handler |-> "handle_boolean"],
    [name |-> (*"zone3input"*) <<122, 111, 110, 101, 51, 105, 110, 112, 117, 116>>, prefix |-> (*"SL3"*) <<83, 76, 51>>, handler |-> "handle_input"],
    [name |-> (*"zone3tune"*) <<122, 111, 110, 101, 51, 116, 117, 110, 101>>, prefix |-> (*"TU3"*) <<84, 85, 51>>, handler |-> "handle_tune"],
    [name |-> (*"zone3preset"*) <<122, 111, 110, 101, 51, 112, 114, 101, 115, 101, 116>>, prefix |-> (*"PR3"*) <<80, 82, 51>>, handler |-> "handle_preset"],
    [name |-> (*"zone3status"*) <<122, 111, 110, 101, 51, 115, 116, 97, 116, 117, 115>>, prefix |-> NULL, handler |-> "handle_status"],
    [name |-> (*"sleep"*) <<115, 108, 101, 101, 112>>, prefix |-> (*"SLP"*) <<83, 76, 80>>, handler |-> "handle_sleep"],
    [name |-> (*"zone2sleep"*) <<122, 111, 110, 101, 50, 115, 108, 101, 101, 112>>, prefix |-> (*"2"*) <<50>>, handler |-> "handle_fakesleep"],
    [name |-> (*"zone3sleep"*) <<122, 111, 110, 101, 51, 115, 108, 101, 101, 112>>, prefix |-> (*"3"*) <<51>>, handler |-> "handle_fakesleep"],
    [name |-> (*"raw"*) <<114, 97, 119>>, prefix |-> (*""*) <<>>, handler |-> "handle_raw"],
    [name |-> (*"quit"*) <<113, 117, 105, 116>>, prefix |-> (*""*) <<>>, handler |-> "handle_quit"]
>>

\* the hashes init_statuses() and init_commands() store, by table position
\* (each table is computed once, as a sequence)
statuses_hash ==
    <<>> \o [i \in 1..Len(statuses) |-> hash_sdbm(statuses[i].key)]

power_statuses_hash ==
    <<>> \o [i \in 1..Len(power_statuses) |-> hash_sdbm(power_statuses[i].key)]

inputs_hash == <<>> \o [i \in 1..Len(inputs) |-> hash_sdbm(inputs[i].key)]

modes_hash == <<>> \o [i \in 1..Len(modes) |-> hash_sdbm(modes[i].key)]

command_list_hash ==
    <<>> \o [i \in 1..Len(command_list) |-> hash_sdbm(command_list[i].name)]

\* the first position of a table whose stored hash is hashval, 0 when none
table_find(hashes, hashval) ==
    LET hits == {i \in DOMAIN hashes : hashes[i] = hashval}
    IN  IF hits = {} THEN 0
        ELSE CHOOSE i \in hits : \A j \in hits : i <= j

(***************************************************************************)
(* command.c: the user command translator.  A handler gets the receiver r  *)
(* and returns [rcvr, ret, out]: the receiver as it leaves it, its return  *)
(* value, and the lines it passed to write_to_connections(), in order.     *)
(* A queue entry is [hash, cmd]; seq numbers the entries in the order they *)
(* were appended (history, not program state), counted in r.queued.        *)
(***************************************************************************)
Result(r, ret) == [rcvr |-> r, ret |-> ret, out |-> <<>>]

\* cmd_attempt() without the walk of the queue that looks for the hash
cmd_attempt_nodedup(r, prefix, arg) ==
    IF arg = NULL THEN Result(r, -1)
    ELSE IF Len(prefix) + Len(arg) >= BUF_SIZE THEN Result(r, -1)
    ELSE Result([r EXCEPT
                    !.queue = Append(@, [hash |-> hash_sdbm(prefix \o arg),
                                         cmd |-> prefix \o arg,
                                         seq |-> r.queued + 1]),
                    !.queued = @ + 1], 0)

cmd_attempt(r, prefix, arg) ==
    IF arg = NULL THEN Result(r, -1)
    ELSE IF Len(prefix) + Len(arg) >= BUF_SIZE THEN Result(r, -1)
    ELSE LET cmd == prefix \o arg
             h   == hash_sdbm(cmd)
         IN  IF \E i \in 1..Len(r.queue) : r.queue[i].hash = h
             THEN Result(r, 0)
             ELSE Result([r EXCEPT
                             !.queue = Append(@, [hash |-> h, cmd |-> cmd,
                                                  seq |-> r.queued + 1]),
                             !.queued = @ + 1], 0)

cmd_attempt_raw(r, prefix, arg) == cmd_attempt(r, prefix, arg)

\* ret = -2: not one of the standard operations
handle_standard(r, cmd, arg) ==
    IF arg = NULL \/ arg = (*"status"*) <<115, 116, 97, 116, 117, 115>> THEN cmd_attempt(r, cmd.prefix, (*"QSTN"*) <<81, 83, 84, 78>>)
    ELSE IF arg = (*"up"*) <<117, 112>> THEN cmd_attempt(r, cmd.prefix, (*"UP"*) <<85, 80>>)
    ELSE IF arg = (*"down"*) <<100, 111, 119, 110>> THEN cmd_attempt(r, cmd.prefix, (*"DOWN"*) <<68, 79, 87, 78>>)
    ELSE Result(r, -2)

handle_boolean(r, cmd, arg) ==
    IF arg = NULL \/ arg = (*"status"*) <<115, 116, 97, 116, 117, 115>> THEN cmd_attempt(r, cmd.prefix, (*"QSTN"*) <<81, 83, 84, 78>>)
    ELSE IF arg = (*"on"*) <<111, 110>> THEN cmd_attempt(r, cmd.prefix, (*"01"*) <<48, 49>>)
    ELSE IF arg = (*"off"*) <<111, 102, 102>> THEN cmd_attempt(r, cmd.prefix, (*"00"*) <<48, 48>>)
    ELSE IF /\ arg = (*"toggle"*) <<116, 111, 103, 103, 108, 101>>
            /\ cmd.prefix \in {(*"AMT"*) <<65, 77, 84>>, (*"ZMT"*) <<90, 77, 84>>, (*"MT3"*) <<77, 84, 51>>}
         THEN cmd_attempt(r, cmd.prefix, (*"TG"*) <<84, 71>>)
    ELSE Result(r, -1)

handle_ranged_open(r, cmd, arg, lower, upper, offset, hex) ==
    LET std == handle_standard(r, cmd, arg)
        n   == strtol(arg, 10)
        level == n.val + offset
    IN  IF std.ret # -2 THEN std
        ELSE IF n.rest # <<>> THEN Result(r, -1)
        ELSE IF n.val < lower \/ n.val >= upper THEN Result(r, -1)
        ELSE cmd_attempt(r, cmd.prefix,
                         IF hex THEN fmt_0lX(level, 2)
                         ELSE fmt_0ld(level, 3) \o <<48>>)

\* fmt is "%02lX" (hex = TRUE) or "%03ld0" (hex = FALSE)
handle_ranged(r, cmd, arg, lower, upper, offset, hex) ==
    LET std == handle_standard(r, cmd, arg)
        n   == strtol(arg, 10)
        level == n.val + offset
    IN  IF std.ret # -2 THEN std
        ELSE IF n.rest # <<>> THEN Result(r, -1)
        ELSE IF n.val < lower \/ n.val > upper THEN Result(r, -1)
        ELSE cmd_attempt(r, cmd.prefix,
                         IF hex THEN fmt_0lX(level, 2)
                         ELSE fmt_0ld(level, 3) \o <<48>>)

handle_volume_decimal(r, cmd, arg) == handle_ranged(r, cmd, arg, 0, 100, 0, FALSE)

handle_volume(r, cmd, arg) == handle_ranged(r, cmd, arg, 0, 100, 0, TRUE)

handle_dbvolume(r, cmd, arg) == handle_ranged(r, cmd, arg, -82, 18, 82, TRUE)

handle_preset(r, cmd, arg) == handle_ranged(r, cmd, arg, 0, 40, 0, TRUE)

\* (the text "%03ld0" gives is longer than handle_ranged()'s cmdstr: this is
\* the outcome in which the write beyond it does no harm, InputOverflow is
\* the other)
handle_avsync(r, cmd, arg) == handle_ranged(r, cmd, arg, 0, 250, 0, FALSE)

\* handle_ranged(): char cmdstr[3], "XX\0"
cmdstr_size == 3

\* sprintf() in handle_ranged() writes beyond the end of cmdstr: the number
\* was taken, and its text with the terminating zero is longer than cmdstr
handle_ranged_overflow(arg, lower, upper, offset, hex) ==
    /\ arg # NULL
    /\ arg \notin {(*"status"*) <<115, 116, 97, 116, 117, 115>>, (*"up"*) <<117, 112>>, (*"down"*) <<100, 111, 119, 110>>}
    /\ LET n     == strtol(arg, 10)
           level == n.val + offset
           text  == IF hex THEN fmt_0lX(level, 2) ELSE fmt_0ld(level, 3) \o <<48>>
       IN  /\ n.rest = <<>>
           /\ n.val >= lower /\ n.val <= upper
           /\ Len(text) + 1 > cmdstr_size

handle_swlevel_decimal(r, cmd, arg) ==
    LET std == handle_standard(r, cmd, arg)
        n   == strtol(arg, 10)
    IN  IF std.ret # -2 THEN std
        ELSE IF n.rest # <<>> THEN Result(r, -1)
        ELSE IF n.val < -15 \/ n.val > 12 THEN Result(r, -1)
        ELSE cmd_attempt(r, cmd.prefix,
                         IF n.val = 0 THEN (*"00"*) <<48, 48>>
                         ELSE IF n.val > 0 THEN <<43>> \o digits_of(n.val, 10)
                         ELSE <<45>> \o digits_of(0 - n.val, 10))

handle_swlevel(r, cmd, arg) ==
    LET std == handle_standard(r, cmd, arg)
        n   == strtol(arg, 10)
    IN  IF std.ret # -2 THEN std
        ELSE IF n.rest # <<>> THEN Result(r, -1)
        ELSE IF n.val < -15 \/ n.val > 12 THEN Result(r, -1)
        ELSE cmd_attempt(r, cmd.prefix,
                         IF n.val = 0 THEN (*"00"*) <<48, 48>>
                         ELSE IF n.val > 0 THEN <<43>> \o digits_of(n.val, 16)
                         ELSE <<45>> \o digits_of(0 - n.val, 16))

handle_input(r, cmd, arg) ==
    LET std == handle_standard(r, cmd, arg)
        up  == [i \in 1..Len(arg) |-> toupper(arg[i])]
        i   == table_find(inputs_hash, hash_sdbm(up))
    IN  IF std.ret # -2 THEN std
        ELSE IF i # 0 THEN cmd_attempt(r, cmd.prefix, inputs[i].value)
        ELSE IF cmd.prefix \in {(*"SLZ"*) <<83, 76, 90>>, (*"SL3"*) <<83, 76, 51>>} /\ up = (*"OFF"*) <<79, 70, 70>>
             THEN cmd_attempt(r, cmd.prefix, (*"7F"*) <<55, 70>>)
        ELSE IF cmd.prefix \in {(*"SLZ"*) <<83, 76, 90>>, (*"SL3"*) <<83, 76, 51>>} /\ up = (*"SOURCE"*) <<83, 79, 85, 82, 67, 69>>
             THEN cmd_attempt(r, cmd.prefix, (*"80"*) <<56, 48>>)
        ELSE Result(r, -1)

handle_mode(r, cmd, arg) ==
    LET std == handle_standard(r, cmd, arg)
        up  == [i \in 1..Len(arg) |-> toupper(arg[i])]
        i   == table_find(modes_hash, hash_sdbm(up))
    IN  IF std.ret # -2 THEN std
        ELSE IF i # 0 THEN cmd_attempt(r, cmd.prefix, modes[i].value)
        ELSE Result(r, -1)

handle_tune_tenths(r, cmd, arg) ==
    LET std  == handle_standard(r, cmd, arg)
        n    == strtol(arg, 10)
        frac == strtol(Tail(n.rest), 10)
    IN  IF std.ret # -2 THEN std
        ELSE IF strchr(arg, 46) # 0
        THEN IF \/ frac.val < 0 \/ frac.val > 9
                \/ (n.val <= 87 /\ frac.val < 5)
                \/ n.val >= 108
             THEN Result(r, -1)
             ELSE cmd_attempt(r, cmd.prefix,
                              fmt_0ld(n.val * 100 + frac.val, 5))
        ELSE IF n.val < 530 \/ n.val > 1710 THEN Result(r, -1)
             ELSE cmd_attempt(r, cmd.prefix, fmt_0ld(n.val, 5))

\* errno is set by strtol only on overflow, which the bounded arguments
\* of the model never reach
handle_tune(r, cmd, arg) ==
    LET std  == handle_standard(r, cmd, arg)
        n    == strtol(arg, 10)
        frac == strtol(Tail(n.rest), 10)
    IN  IF std.ret # -2 THEN std
        ELSE IF strchr(arg, 46) # 0
        THEN IF \/ frac.val < 0 \/ frac.val > 9
                \/ (n.val <= 87 /\ frac.val < 5)
                \/ n.val >= 108
             THEN Result(r, -1)
             ELSE cmd_attempt(r, cmd.prefix,
                              fmt_0ld(n.val * 100 + frac.val * 10, 5))
        ELSE IF n.val < 530 \/ n.val > 1710 THEN Result(r, -1)
             ELSE cmd_attempt(r, cmd.prefix, fmt_0ld(n.val, 5))

handle_sleep(r, cmd, arg) ==
    LET n == strtol(arg, 10)
    IN  IF arg = NULL \/ arg = (*"status"*) <<115, 116, 97, 116, 117, 115>> THEN cmd_attempt(r, cmd.prefix, (*"QSTN"*) <<81, 83, 84, 78>>)
        ELSE IF arg = (*"off"*) <<111, 102, 102>> THEN cmd_attempt(r, cmd.prefix, (*"OFF"*) <<79, 70, 70>>)
        ELSE IF n.rest # <<>> THEN Result(r, -1)
        ELSE IF n.val < 0 \/ n.val > 90 THEN Result(r, -1)
        ELSE cmd_attempt(r, cmd.prefix, fmt_0lX(n.val, 2))

\* write_fakesleep_status() rounding the minutes down
write_fakesleep_status_floor(r, now, zone) ==
    LET when == IF zone = 50 THEN r.zone2_sleep.tv_sec ELSE r.zone3_sleep.tv_sec
        mins == IF when > now.tv_sec
                THEN (when - now.tv_sec) \div 60
                ELSE 0
    IN  snprintf((*"OK:zone"*) <<79, 75, 58, 122, 111, 110, 101>> \o <<zone>> \o (*"sleep:"*) <<115, 108, 101, 101, 112, 58>> \o fmt_ld(mins) \o <<10>>)

\* the line write_fakesleep_status() passes to write_to_connections()
write_fakesleep_status(r, now, zone) ==
    LET when == IF zone = 50 THEN r.zone2_sleep.tv_sec ELSE r.zone3_sleep.tv_sec
        mins == IF when > now.tv_sec
                THEN (when - now.tv_sec + 59) \div 60
                ELSE 0
    IN  snprintf((*"OK:zone"*) <<79, 75, 58, 122, 111, 110, 101>> \o <<zone>> \o (*"sleep:"*) <<115, 108, 101, 101, 112, 58>> \o fmt_ld(mins) \o <<10>>)

\* handle_fakesleep() that sets the deadline before it looks at the number
handle_fakesleep_set_first(r, cmd, arg, now) ==
    LET zone == cmd.prefix[1]
        n    == strtol(arg, 10)
        at   == timeval(now.tv_sec + 60 * n.val, now.tv_usec)
        r2   == IF arg = NULL \/ arg = (*"status"*) <<115, 116, 97, 116, 117, 115>> THEN r
                ELSE IF arg = (*"off"*) <<111, 102, 102>>
                THEN IF zone = 50 THEN [r EXCEPT !.zone2_sleep = timeval_zero]
                     ELSE [r EXCEPT !.zone3_sleep = timeval_zero]
                ELSE IF zone = 50 THEN [r EXCEPT !.zone2_sleep = at]
                     ELSE [r EXCEPT !.zone3_sleep = at]
    IN  IF zone \notin {50, 51} THEN Result(r, -1)
        ELSE IF /\ arg # NULL
                /\ arg \notin {(*"status"*) <<115, 116, 97, 116, 117, 115>>, (*"off"*) <<111, 102, 102>>}
                /\ (n.rest # <<>> \/ n.val < 0)
             THEN Result(r2, -1)
        ELSE [rcvr |-> r2, ret |-> 0,
              out |-> <<write_fakesleep_status(r2, now, zone)>>]

\* handle_fakesleep() taking the number for seconds
handle_fakesleep_seconds(r, cmd, arg, now) ==
    LET zone == cmd.prefix[1]
        n    == strtol(arg, 10)
        at   == timeval(now.tv_sec + n.val, now.tv_usec)
        r2   == IF arg = NULL \/ arg = (*"status"*) <<115, 116, 97, 116, 117, 115>> THEN r
                ELSE IF arg = (*"off"*) <<111, 102, 102>>
                THEN IF zone = 50 THEN [r EXCEPT !.zone2_sleep = timeval_zero]
                     ELSE [r EXCEPT !.zone3_sleep = timeval_zero]
                ELSE IF zone = 50 THEN [r EXCEPT !.zone2_sleep = at]
                     ELSE [r EXCEPT !.zone3_sleep = at]
    IN  IF zone \notin {50, 51} THEN Result(r, -1)
        ELSE IF /\ arg # NULL
                /\ arg \notin {(*"status"*) <<115, 116, 97, 116, 117, 115>>, (*"off"*) <<111, 102, 102>>}
                /\ (n.rest # <<>> \/ n.val < 0)
             THEN Result(r, -1)
        ELSE [rcvr |-> r2, ret |-> 0,
              out |-> <<write_fakesleep_status(r2, now, zone)>>]

\* handle_fakesleep() clearing the deadline when it has no argument
handle_fakesleep_absent_clears(r, cmd, arg, now) ==
    LET zone == cmd.prefix[1]
        n    == strtol(arg, 10)
        at   == timeval(now.tv_sec + 60 * n.val, now.tv_usec)
        r2   == IF arg # NULL /\ arg = (*"status"*) <<115, 116, 97, 116, 117, 115>> THEN r
                ELSE IF arg = NULL \/ arg = (*"off"*) <<111, 102, 102>>
                THEN IF zone = 50 THEN [r EXCEPT !.zone2_sleep = timeval_zero]
                     ELSE [r EXCEPT !.zone3_sleep = timeval_zero]
                ELSE IF zone = 50 THEN [r EXCEPT !.zone2_sleep = at]
                     ELSE [r EXCEPT !.zone3_sleep = at]
    IN  IF zone \notin {50, 51} THEN Result(r, -1)
        ELSE IF /\ arg # NULL
                /\ arg \notin {(*"status"*) <<115, 116, 97, 116, 117, 115>>, (*"off"*) <<111, 102, 102>>}
                /\ (n.rest # <<>> \/ n.val < 0)
             THEN Result(r, -1)
        ELSE [rcvr |-> r2, ret |-> 0,
              out |-> <<write_fakesleep_status(r2, now, zone)>>]

handle_fakesleep(r, cmd, arg, now) ==
    LET zone == cmd.prefix[1]
        n    == strtol(arg, 10)
        at   == timeval(now.tv_sec + 60 * n.val, now.tv_usec)
        r2   == IF arg = NULL \/ arg = (*"status"*) <<115, 116, 97, 116, 117, 115>> THEN r
                ELSE IF arg = (*"off"*) <<111, 102, 102>>
                THEN IF zone = 50 THEN [r EXCEPT !.zone2_sleep = timeval_zero]
                     ELSE [r EXCEPT !.zone3_sleep = timeval_zero]
                ELSE IF zone = 50 THEN [r EXCEPT !.zone2_sleep = at]
                     ELSE [r EXCEPT !.zone3_sleep = at]
    IN  IF zone \notin {50, 51} THEN Result(r, -1)
        ELSE IF /\ arg # NULL
                /\ arg \notin {(*"status"*) <<115, 116, 97, 116, 117, 115>>, (*"off"*) <<111, 102, 102>>}
                /\ (n.rest # <<>> \/ n.val < 0)
             THEN Result(r, -1)
        ELSE [rcvr |-> r2, ret |-> 0,
              out |-> <<write_fakesleep_status(r2, now, zone)>>]

handle_memory(r, cmd, arg) ==
    IF arg = NULL THEN Result(r, -1)
    ELSE IF arg = (*"lock"*) <<108, 111, 99, 107>> THEN cmd_attempt(r, cmd.prefix, (*"LOCK"*) <<76, 79, 67, 75>>)
    ELSE IF arg = (*"unlock"*) <<117, 110, 108, 111, 99, 107>> THEN cmd_attempt(r, cmd.prefix, (*"UNLK"*) <<85, 78, 76, 75>>)
    ELSE Result(r, -1)

\* the codes of handle_status() are attempted in order on the receiver the
\* one before left; each cmd_attempt_raw() returns 0 here
RECURSIVE attempt_all(_, _)
attempt_all(r, prefixes) ==
    IF prefixes = <<>> THEN r
    ELSE attempt_all(cmd_attempt_raw(r, Head(prefixes), (*"QSTN"*) <<81, 83, 84, 78>>).rcvr,
                     Tail(prefixes))

handle_status(r, cmd, arg) ==
    IF cmd.name = (*"status"*) <<115, 116, 97, 116, 117, 115>> /\ (arg = NULL \/ arg = (*"main"*) <<109, 97, 105, 110>>)
    THEN Result(attempt_all(r, <<(*"PWR"*) <<80, 87, 82>>, (*"MVL"*) <<77, 86, 76>>, (*"AMT"*) <<65, 77, 84>>, (*"SLI"*) <<83, 76, 73>>, (*"LMD"*) <<76, 77, 68>>, (*"TUN"*) <<84, 85, 78>>>>), 0)
    ELSE IF cmd.name = (*"zone2status"*) <<122, 111, 110, 101, 50, 115, 116, 97, 116, 117, 115>> \/ (arg # NULL /\ arg = (*"zone2"*) <<122, 111, 110, 101, 50>>)
    THEN Result(attempt_all(r, <<(*"ZPW"*) <<90, 80, 87>>, (*"ZVL"*) <<90, 86, 76>>, (*"ZMT"*) <<90, 77, 84>>, (*"SLZ"*) <<83, 76, 90>>, (*"TUZ"*) <<84, 85, 90>>>>), 0)
    ELSE IF cmd.name = (*"zone3status"*) <<122, 111, 110, 101, 51, 115, 116, 97, 116, 117, 115>> \/ (arg # NULL /\ arg = (*"zone3"*) <<122, 111, 110, 101, 51>>)
    THEN Result(attempt_all(r, <<(*"PW3"*) <<80, 87, 51>>, (*"VL3"*) <<86, 76, 51>>, (*"MT3"*) <<77, 84, 51>>, (*"SL3"*) <<83, 76, 51>>, (*"TU3"*) <<84, 85, 51>>>>), 0)
    ELSE Result(r, -1)

handle_raw(r, cmd, arg) == cmd_attempt(r, cmd.prefix, arg)

\* handle_quit() returning as a handler that has done its work
handle_quit_ok(r, cmd, arg) == Result(r, 0)

handle_quit(r, cmd, arg) == Result(r, -2)

\* cmd->handler(rcvr, cmd, argstr)
call_handler(r, cmd, arg, now) ==
    CASE cmd.handler = "handle_boolean"   -> handle_boolean(r, cmd, arg)
      [] cmd.handler = "handle_volume"    -> handle_volume(r, cmd, arg)
      [] cmd.handler = "handle_dbvolume"  -> handle_dbvolume(r, cmd, arg)
      [] cmd.handler = "handle_preset"    -> handle_preset(r, cmd, arg)
      [] cmd.handler = "handle_avsync"    -> handle_avsync(r, cmd, arg)
      [] cmd.handler = "handle_swlevel"   -> handle_swlevel(r, cmd, arg)
      [] cmd.handler = "handle_input"     -> handle_input(r, cmd, arg)
      [] cmd.handler = "handle_mode"      -> handle_mode(r, cmd, arg)
      [] cmd.handler = "handle_tune"      -> handle_tune(r, cmd, arg)
      [] cmd.handler = "handle_sleep"     -> handle_sleep(r, cmd, arg)
      [] cmd.handler = "handle_fakesleep" -> handle_fakesleep(r, cmd, arg, now)
      [] cmd.handler = "handle_memory"    -> handle_memory(r, cmd, arg)
      [] cmd.handler = "handle_status"    -> handle_status(r, cmd, arg)
      [] cmd.handler = "handle_raw"       -> handle_raw(r, cmd, arg)
      [] cmd.handler = "handle_quit"      -> handle_quit(r, cmd, arg)

\* the string without its trailing whitespace
RECURSIVE strip_trailing(_)
strip_trailing(s) ==
    IF s # <<>> /\ isspace(s[Len(s)])
    THEN strip_trailing(SubSeq(s, 1, Len(s) - 1))
    ELSE s

\* now is what gettimeofday() returns in a handler that asks for the time
\* process_command() on str comes to a sprintf() that writes beyond its
\* buffer
command_overflow(str) ==
    LET cmdstr == strip_trailing(str)
        sp     == strchr(cmdstr, 32)
        name   == IF sp = 0 THEN cmdstr ELSE SubSeq(cmdstr, 1, sp - 1)
        argstr == IF sp = 0 THEN NULL ELSE SubSeq(cmdstr, sp + 1, Len(cmdstr))
        i      == table_find(command_list_hash, hash_sdbm(name))
        h      == command_list[i].handler
    IN  /\ i # 0
        /\ CASE h = "handle_volume"   -> handle_ranged_overflow(argstr, 0, 100, 0, TRUE)
             [] h = "handle_dbvolume" -> handle_ranged_overflow(argstr, -82, 18, 82, TRUE)
             [] h = "handle_preset"   -> handle_ranged_overflow(argstr, 0, 40, 0, TRUE)
             [] h = "handle_avsync"   -> handle_ranged_overflow(argstr, 0, 250, 0, FALSE)
             [] OTHER                 -> FALSE

process_command(r, str, now) ==
    LET cmdstr == strip_trailing(str)
        sp     == strchr(cmdstr, 32)
        name   == IF sp = 0 THEN cmdstr ELSE SubSeq(cmdstr, 1, sp - 1)
        argstr == IF sp = 0 THEN NULL ELSE SubSeq(cmdstr, sp + 1, Len(cmdstr))
        i      == table_find(command_list_hash, hash_sdbm(name))
    IN  IF i = 0 THEN Result(r, -1)
        ELSE call_handler(r, command_list[i], argstr, now)

\* is_power_command() that knows the main zone only
is_power_command_main(cmd) == strstr(cmd, (*"PWR"*) <<80, 87, 82>>)

is_power_command(cmd) ==
    strstr(cmd, (*"PWR"*) <<80, 87, 82>>) \/ strstr(cmd, (*"ZPW"*) <<90, 80, 87>>) \/ strstr(cmd, (*"PW3"*) <<80, 87, 51>>)

(***************************************************************************)
(* onkyo.c: the common messages.                                           *)
(***************************************************************************)
startup_msg == (*"OK:onkyocontrol v1.1\n"*) <<79, 75, 58, 111, 110, 107, 121, 111, 99, 111, 110, 116, 114, 111, 108, 32, 118, 49, 46, 49, 10>>

invalid_cmd == (*"ERROR:Invalid Command\n"*) <<69, 82, 82, 79, 82, 58, 73, 110, 118, 97, 108, 105, 100, 32, 67, 111, 109, 109, 97, 110, 100, 10>>

max_conns == (*"ERROR:Max Connections Reached\n"*) <<69, 82, 82, 79, 82, 58, 77, 97, 120, 32, 67, 111, 110, 110, 101, 99, 116, 105, 111, 110, 115, 32, 82, 101, 97, 99, 104, 101, 100, 10>>

rcvr_err == (*"ERROR:Receiver Error\n"*) <<69, 82, 82, 79, 82, 58, 82, 101, 99, 101, 105, 118, 101, 114, 32, 69, 114, 114, 111, 114, 10>>

START_SEND == (*"!1"*) <<33, 49>>

END_SEND == (*"\r\n"*) <<13, 10>>

START_RECV == (*"!1"*) <<33, 49>>

END_RECV == (*"\z"*) <<26>>

(***************************************************************************)
(* receiver.c: the command queue towards the receiver.                     *)
(***************************************************************************)
\* [rcvr, ptr]: the entry to send (NULL when the queue ran empty) and the
\* receiver without the entries that were dequeued
\* the null pointer to a struct cmdqueue
no_cmd == [hash |-> <<>>, cmd |-> NULL, seq |-> 0]

\* nothing written
no_write == [bytes |-> <<>>, seq |-> 0]

\* next_rcvr_command() whose test of the power holds a command back in the
\* queue
next_rcvr_command_gate_holds(r) ==
    IF r.queue = <<>> THEN [rcvr |-> r, ptr |-> no_cmd]
    ELSE IF r.power # POWER_OFF \/ is_power_command(Head(r.queue).cmd)
    THEN [rcvr |-> [r EXCEPT !.queue = Tail(@)], ptr |-> Head(r.queue)]
    ELSE [rcvr |-> r, ptr |-> no_cmd]

\* next_rcvr_command() without the test of the power: the head is returned
next_rcvr_command_ungated(r) ==
    IF r.queue = <<>> THEN [rcvr |-> r, ptr |-> no_cmd]
    ELSE [rcvr |-> [r EXCEPT !.queue = Tail(@)], ptr |-> Head(r.queue)]

\* next_rcvr_command() taking the entries from the tail of the queue
RECURSIVE next_rcvr_command_lifo(_)
next_rcvr_command_lifo(r) ==
    IF r.queue = <<>> THEN [rcvr |-> r, ptr |-> no_cmd]
    ELSE LET ptr == r.queue[Len(r.queue)]
             r2  == [r EXCEPT !.queue = SubSeq(@, 1, Len(@) - 1)]
         IN  IF r.power # POWER_OFF \/ is_power_command(ptr.cmd)
             THEN [rcvr |-> r2, ptr |-> ptr]
             ELSE next_rcvr_command_lifo(r2)

RECURSIVE next_rcvr_command(_)
next_rcvr_command(r) ==
    IF r.queue = <<>> THEN [rcvr |-> r, ptr |-> no_cmd]
    ELSE LET ptr == Head(r.queue)
             r2  == [r EXCEPT !.queue = Tail(@)]
         IN  IF r.power # POWER_OFF \/ is_power_command(ptr.cmd)
             THEN [rcvr |-> r2, ptr |-> ptr]
             ELSE next_rcvr_command(r2)

\* what xwrite() returns for len bytes: all of them, some of them, or -1
xwrite_result(len, outcome) ==
    CASE outcome = "full"  -> len
      [] outcome = "short" -> len - 1
      [] outcome = "fail"  -> -1

\* [rcvr, ret, wrote]: wrote is no_write when nothing reached the serial
\* line, else [bytes, seq] with the bytes of the command that were written
rcvr_send_command(r, now, outcome) ==
    LET send(nx, fullcmd, retval) ==
            IF nx.ptr = no_cmd
            THEN [rcvr |-> nx.rcvr, ret |-> 0, wrote |-> no_write]
            ELSE IF Len(fullcmd) >= BUF_SIZE * 2
            THEN [rcvr |-> nx.rcvr, ret |-> -1, wrote |-> no_write]
            ELSE IF retval < 0 \/ retval # Len(fullcmd)
            THEN [rcvr |-> [nx.rcvr EXCEPT !.last_cmd = now], ret |-> -1,
                  wrote |-> IF retval > 0
                            THEN [bytes |-> SubSeq(fullcmd, 1, retval),
                                  seq |-> nx.ptr.seq]
                            ELSE no_write]
            ELSE [rcvr |-> [nx.rcvr EXCEPT !.last_cmd = now, !.cmds_sent = @ + 1],
                  ret |-> 0,
                  wrote |-> [bytes |-> fullcmd, seq |-> nx.ptr.seq]]
        format(nx, fullcmd) == send(nx, fullcmd, xwrite_result(Len(fullcmd), outcome))
        next(nx) == format(nx, START_SEND \o nx.ptr.cmd \o END_SEND)
    IN  IF r.queue = <<>> THEN [rcvr |-> r, ret |-> -1, wrote |-> no_write]
        ELSE next(next_rcvr_command(r))

(***************************************************************************)
(* receiver.c: the status parser.                                          *)
(***************************************************************************)
\* update_power_status() that leaves the bitmask alone
update_power_status_none(r, zone, value) == r

\* update_power_status() that leaves the sleep deadlines alone
update_power_status_keep_sleep(r, zone, value) ==
    LET has(bit) == (r.power \div bit) % 2 = 1
        set(bit) == IF has(bit) THEN r.power ELSE r.power + bit
        clr(bit) == IF has(bit) THEN r.power - bit ELSE r.power
        bit      == IF zone = 1 THEN MAIN_POWER
                    ELSE IF zone = 2 THEN ZONE2_POWER ELSE ZONE3_POWER
    IN  IF zone \in {1, 2, 3} /\ value \in {0, 1}
        THEN [r EXCEPT !.power = IF value = 0 THEN clr(bit) ELSE set(bit)]
        ELSE r

update_power_status(r, zone, value) ==
    LET has(bit) == (r.power \div bit) % 2 = 1
        set(bit) == IF has(bit) THEN r.power ELSE r.power + bit
        clr(bit) == IF has(bit) THEN r.power - bit ELSE r.power
    IN  IF zone = 1 /\ value = 0 THEN [r EXCEPT !.power = clr(MAIN_POWER)]
        ELSE IF zone = 1 /\ value = 1 THEN [r EXCEPT !.power = set(MAIN_POWER)]
        ELSE IF zone = 2 /\ value = 0
             THEN [r EXCEPT !.power = clr(ZONE2_POWER),
                            !.zone2_sleep = timeval_zero]
        ELSE IF zone = 2 /\ value = 1 THEN [r EXCEPT !.power = set(ZONE2_POWER)]
        ELSE IF zone = 3 /\ value = 0
             THEN [r EXCEPT !.power = clr(ZONE3_POWER),
                            !.zone3_sleep = timeval_zero]
        ELSE IF zone = 3 /\ value = 1 THEN [r EXCEPT !.power = set(ZONE3_POWER)]
        ELSE r

\* strncmp(s, p, Len(p)) == 0
strncmp_eq(s, p) == Len(s) >= Len(p) /\ SubSeq(s, 1, Len(p)) = p

\* s + n, a pointer into the string (the empty string from its end on)
str_from(s, n) == IF n >= Len(s) THEN <<>> ELSE SubSeq(s, n + 1, Len(s))

\* the start characters taken to be at the start of whatever was read
memmem_start_assumed(status) == 1

\* memmem(status, size, START_RECV, 2): the offset (from 1) of the first
\* START_RECV within the size bytes read, 0 when there is none
memmem_start(status) ==
    LET hit(i) == SubSeq(status, i, i + Len(START_RECV) - 1) = START_RECV
        last   == Len(status) - Len(START_RECV) + 1
    IN  IF \E i \in 1..last : hit(i)
        THEN CHOOSE i \in 1..last : hit(i) /\ \A j \in 1..(i - 1) : ~hit(j)
        ELSE 0

\* the payload: from behind START_RECV to the first END_RECV, or to the
\* NUL that ends the buffer
payload_of(status) ==
    LET sptr == cstring(str_from(status, memmem_start(status) + 1))
        e    == strchr(sptr, END_RECV[1])
    IN  IF e = 0 THEN sptr ELSE SubSeq(sptr, 1, e - 1)

\* the volume lines with buf written before buf2
volume_lines_buf_first(buf, buf2) == <<buf, buf2>>

\* the two lines of a volume message in the order they are written: buf2
\* where it is formed, buf by the write that ends parse_status()
volume_lines(buf, buf2) == <<buf2, buf>>

\* the lines the special cases write, given the payload
special_lines(sptr) ==
    LET tunemsg == IF Len(sptr) >= 3 /\ sptr[3] = 90 THEN (*"OK:zone2tune:"*) <<79, 75, 58, 122, 111, 110, 101, 50, 116, 117, 110, 101, 58>>
                   ELSE IF Len(sptr) >= 3 /\ sptr[3] = 51 THEN (*"OK:zone3tune:"*) <<79, 75, 58, 122, 111, 110, 101, 51, 116, 117, 110, 101, 58>>
                   ELSE (*"OK:tune:"*) <<79, 75, 58, 116, 117, 110, 101, 58>>
        prsmsg  == IF sptr[3] = 90 THEN (*"OK:zone2preset:"*) <<79, 75, 58, 122, 111, 110, 101, 50, 112, 114, 101, 115, 101, 116, 58>>
                   ELSE IF sptr[3] = 51 THEN (*"OK:zone3preset:"*) <<79, 75, 58, 122, 111, 110, 101, 51, 112, 114, 101, 115, 101, 116, 58>>
                   ELSE (*"OK:preset:"*) <<79, 75, 58, 112, 114, 101, 115, 101, 116, 58>>
        lines(hex, dec) ==
            IF strncmp_eq(sptr, (*"MVL"*) <<77, 86, 76>>)
            THEN volume_lines(snprintf((*"OK:volume:"*) <<79, 75, 58, 118, 111, 108, 117, 109, 101, 58>> \o fmt_ld(hex) \o <<10>>),
                              snprintf((*"OK:dbvolume:"*) <<79, 75, 58, 100, 98, 118, 111, 108, 117, 109, 101, 58>> \o fmt_ld(hex - 82) \o <<10>>))
            ELSE IF strncmp_eq(sptr, (*"ZVL"*) <<90, 86, 76>>)
            THEN volume_lines(snprintf((*"OK:zone2volume:"*) <<79, 75, 58, 122, 111, 110, 101, 50, 118, 111, 108, 117, 109, 101, 58>> \o fmt_ld(hex) \o <<10>>),
                              snprintf((*"OK:zone2dbvolume:"*) <<79, 75, 58, 122, 111, 110, 101, 50, 100, 98, 118, 111, 108, 117, 109, 101, 58>> \o fmt_ld(hex - 82) \o <<10>>))
            ELSE IF strncmp_eq(sptr, (*"VL3"*) <<86, 76, 51>>)
            THEN volume_lines(snprintf((*"OK:zone3volume:"*) <<79, 75, 58, 122, 111, 110, 101, 51, 118, 111, 108, 117, 109, 101, 58>> \o fmt_ld(hex) \o <<10>>),
                              snprintf((*"OK:zone3dbvolume:"*) <<79, 75, 58, 122, 111, 110, 101, 51, 100, 98, 118, 111, 108, 117, 109, 101, 58>> \o fmt_ld(hex - 82) \o <<10>>))
            ELSE IF strncmp_eq(sptr, (*"TU"*) <<84, 85>>)
            THEN IF dec > 8000
                 THEN << snprintf(tunemsg \o fmt_ld(dec \div 100) \o <<46>>
                                  \o fmt_ld((dec \div 10) % 10) \o (*" FM\n"*) <<32, 70, 77, 10>>) >>
                 ELSE << snprintf(tunemsg \o fmt_ld(dec) \o (*" AM\n"*) <<32, 65, 77, 10>>) >>
            ELSE IF \/ strncmp_eq(sptr, (*"PRS"*) <<80, 82, 83>>) \/ strncmp_eq(sptr, (*"PRZ"*) <<80, 82, 90>>)
                    \/ strncmp_eq(sptr, (*"PR3"*) <<80, 82, 51>>)
            THEN << snprintf(prsmsg \o fmt_ld(hex) \o <<10>>) >>
            ELSE IF strncmp_eq(sptr, (*"SLP"*) <<83, 76, 80>>)
            THEN << snprintf((*"OK:sleep:"*) <<79, 75, 58, 115, 108, 101, 101, 112, 58>> \o fmt_ld(hex) \o <<10>>) >>
            ELSE IF strncmp_eq(sptr, (*"SWL"*) <<83, 87, 76>>)
            THEN << snprintf((*"OK:swlevel:"*) <<79, 75, 58, 115, 119, 108, 101, 118, 101, 108, 58>> \o fmt_plus_ld(hex) \o <<10>>) >>
            ELSE IF strncmp_eq(sptr, (*"AVS"*) <<65, 86, 83>>)
            THEN << snprintf((*"OK:avsync:"*) <<79, 75, 58, 97, 118, 115, 121, 110, 99, 58>> \o fmt_ld(dec \div 10) \o <<10>>) >>
            ELSE << snprintf((*"OK:todo:"*) <<79, 75, 58, 116, 111, 100, 111, 58>> \o sptr \o <<10>>) >>
    IN  lines(strtol(str_from(sptr, 3), 16).val, strtol(str_from(sptr, 3), 10).val)

\* parse_status() that tries the prefix families before the tables
parse_status_family_first(r, status) ==
    LET found(sptr, st, pwr_st) ==
            IF ~strncmp_eq(special_lines(sptr)[1], (*"OK:todo:"*) <<79, 75, 58, 116, 111, 100, 111, 58>>)
            THEN [rcvr |-> r, ret |-> 0, out |-> special_lines(sptr)]
            ELSE IF st # 0
            THEN [rcvr |-> r, ret |-> 0, out |-> <<statuses[st].value>>]
            ELSE IF pwr_st # 0
            THEN [rcvr |-> update_power_status(r, power_statuses[pwr_st].zone,
                                               power_statuses[pwr_st].power),
                  ret |-> 0, out |-> <<power_statuses[pwr_st].value>>]
            ELSE [rcvr |-> r, ret |-> 0, out |-> special_lines(sptr)]
        lookup(sptr, hashval) ==
            found(sptr, table_find(statuses_hash, hashval),
                  table_find(power_statuses_hash, hashval))
        parse(sptr) == lookup(sptr, hash_sdbm(sptr))
    IN  IF memmem_start(status) = 0
        THEN [rcvr |-> r, ret |-> -1, out |-> <<rcvr_err>>]
        ELSE parse(payload_of(status))

\* status: the bytes read (size = Len(status)); [rcvr, ret, out]
parse_status(r, status) ==
    LET found(sptr, st, pwr_st) ==
            IF st # 0
            THEN [rcvr |-> r, ret |-> 0, out |-> <<statuses[st].value>>]
            ELSE IF pwr_st # 0
            THEN [rcvr |-> update_power_status(r, power_statuses[pwr_st].zone,
                                               power_statuses[pwr_st].power),
                  ret |-> 0, out |-> <<power_statuses[pwr_st].value>>]
            ELSE [rcvr |-> r, ret |-> 0, out |-> special_lines(sptr)]
        lookup(sptr, hashval) ==
            found(sptr, table_find(statuses_hash, hashval),
                  table_find(power_statuses_hash, hashval))
        parse(sptr) == lookup(sptr, hash_sdbm(sptr))
    IN  IF memmem_start(status) = 0
        THEN [rcvr |-> r, ret |-> -1, out |-> <<rcvr_err>>]
        ELSE parse(payload_of(status))

\* what rcvr_handle_status() returns for the bytes a read() delivers: at
\* most BUF_SIZE - 1 of them; an empty read is a failure
rcvr_handle_status(bytes) ==
    IF Len(bytes) > BUF_SIZE - 1 THEN SubSeq(bytes, 1, BUF_SIZE - 1) ELSE bytes

\* [rcvr, ret, out] for the bytes the read of the serial line delivers
process_incoming_message(r, bytes) ==
    LET counted(p) == IF p.ret = 0 THEN [p EXCEPT !.rcvr.msgs_received = @ + 1]
                      ELSE p
        handle(status) ==
            IF Len(status) = 0
            THEN [rcvr |-> r, ret |-> -1, out |-> <<rcvr_err>>]
            ELSE counted(parse_status(r, status))
    IN  handle(rcvr_handle_status(bytes))

(***************************************************************************)
(* Bounds of the model.                                                    *)
(***************************************************************************)
\* clients that may connect
NClients == 3
\* slots of the connection pool (MAX_CONNECTIONS of onkyo.h, scaled down)
MAX_CONNECTIONS == 2
\* chunks of bytes the clients send, in all
MaxSends == 2
\* messages the receiver sends, in all
MaxReplies == 2
\* signals delivered, in all
MaxSignals == 1
\* failed or short writes to the serial line, in all
MaxWriteFaults == 1
\* milliseconds the clock advances, in all
MaxTime == 240
\* inputs of the environment (connections, closes, chunks, messages,
\* signals, failed writes), in all
MaxEvents == 4

Clients == 1..NClients

Slots == 1..MAX_CONNECTIONS

\* the steps the clock advances by while select() waits, in microseconds
Deltas == {40000, 120000}

(***************************************************************************)
(* The state.                                                              *)
(*  now          the clock gettimeofday() reads                            *)
(*  rcvr         the receiver: power, counters, last_cmd, sleep times and  *)
(*               its command queue                                         *)
(*  connections  the connection pool: fd (-1 when free), recv_buf,         *)
(*               recv_buf_pos (an offset into recv_buf)                    *)
(*  pc           where main() is: at the top of its loop, in select(), at  *)
(*               one of the dispatch steps that follow it, or gone         *)
(*  sel          what the loop set up for select() and what select()       *)
(*               returned: writefds, timeout, the fds found ready          *)
(*  signalpipe   signal numbers written by pipehandler(), not yet read     *)
(*  serial_in    messages of the receiver waiting in the serial line       *)
(*  serial_out   what was written to the serial line, with the time        *)
(*  backlog      clients that connected and are not yet accepted           *)
(*  peer         the clients: their end of the socket (bytes sent and not  *)
(*               yet read: tx, lines received: rx)                         *)
(*  count        how many inputs the environment has given (bounds)        *)
(*  io           per client, the bytes it has written (sent) and the       *)
(*               strings process_input() has passed to process_command()   *)
(*               for its connection (handed); history                      *)
(*  proc         the descriptors main() holds besides the connections      *)
(*               (TRUE: open) and the exit status once it has exited       *)
(***************************************************************************)
VARIABLES now, rcvr, connections, pc, sel, signalpipe, serial_in, serial_out,
          backlog, peer, count, io, proc

vars == <<now, rcvr, connections, pc, sel, signalpipe, serial_in, serial_out,
          backlog, peer, count, io, proc>>

NoTimeout == [tv_sec |-> -1, tv_usec |-> -1]

free_conn == [fd |-> -1, recv_buf |-> <<>>, recv_buf_pos |-> 0]

zero_buf == [j \in 1..BUF_SIZE |-> 0]

nothing_ready ==
    [signal |-> FALSE, serial_rd |-> FALSE, serial_wr |-> FALSE,
     listener |-> FALSE, conns |-> {}]

\* struct receiver, zeroed
new_receiver ==
    [power |-> POWER_OFF, cmds_sent |-> 0, msgs_received |-> 0,
     last_cmd |-> timeval_zero, zone2_sleep |-> timeval_zero,
     zone3_sleep |-> timeval_zero, next_sleep_update |-> timeval_zero,
     queue |-> <<>>, queued |-> 0]

\* the clock at startup
start_time == timeval(1, 0)

\* the descriptors after main() has set up: the serial device, the log
\* (the program was started with --log), the listener and the signal pipe
running ==
    [serialdev |-> TRUE, logfd |-> TRUE, listener |-> TRUE,
     signalpipe_rd |-> TRUE, signalpipe_wr |-> TRUE, status |-> "running"]

\* main() up to its loop: no connection, and an initial power query queued
Init ==
    /\ now = start_time
    /\ rcvr = process_command(new_receiver, (*"power"*) <<112, 111, 119, 101, 114>>, start_time).rcvr
    /\ connections = [i \in Slots |-> free_conn]
    /\ pc = "top"
    /\ sel = [writefds |-> FALSE, timeout |-> NoTimeout, entered |-> start_time,
              ready |-> nothing_ready]
    /\ signalpipe = <<>>
    /\ serial_in = <<>>
    /\ serial_out = <<>>
    /\ backlog = <<>>
    /\ peer = [c \in Clients |->
                 [st |-> "idle", closed |-> FALSE, tx |-> <<>>, rx |-> <<>>]]
    /\ count = [sends |-> 0, replies |-> 0, signals |-> 0, faults |-> 0]
    /\ io = [c \in Clients |-> [sent |-> <<>>, handed |-> <<>>]]
    /\ proc = running

(***************************************************************************)
(* onkyo.c: connections and what is written to them.  The sockets of the   *)
(* daemon and of its clients are passed along as w = [connections, peer].  *)
(***************************************************************************)
live(conns, i) == conns[i].fd > -1

end_connection(w, i) ==
    [connections |-> [w.connections EXCEPT ![i] = free_conn],
     peer |-> [w.peer EXCEPT ![w.connections[i].fd].st = "ended"]]

\* a line as a client receives it; a line caused by a message of the
\* receiver carries the number of that message in the serial stream and
\* its place among the lines of that message (history)
rx_line(line, cause, k) == [line |-> line, cause |-> cause, k |-> k]

\* the fan-out loop leaving at the first write that fails
write_to_connections_abort(w, msg, cause, k, failing) ==
    LET bad  == {i \in Slots : live(w.connections, i) /\ i \in failing}
        upto == IF bad = {} THEN MAX_CONNECTIONS
                ELSE CHOOSE i \in bad : \A j \in bad : i <= j
        got  == {w.connections[i].fd :
                    i \in {j \in Slots : live(w.connections, j) /\ j < upto}}
    IN  [connections |-> [i \in Slots |->
                             IF i \in bad /\ i = upto THEN free_conn
                             ELSE w.connections[i]],
         peer |-> [c \in Clients |->
                      IF bad # {} /\ c = w.connections[upto].fd
                      THEN [w.peer[c] EXCEPT !.st = "ended"]
                      ELSE IF c \in got \/ (bad = {} /\ \E i \in Slots : w.connections[i].fd = c)
                      THEN [w.peer[c] EXCEPT
                               !.rx = Append(@, rx_line(msg, cause, k))]
                      ELSE w.peer[c]]]

\* the line goes to every open connection; one whose write fails is ended
write_to_connections(w, msg, cause, k, failing) ==
    LET fds == {w.connections[i].fd : i \in {j \in Slots : live(w.connections, j)}}
        bad == {w.connections[i].fd :
                   i \in {j \in Slots : live(w.connections, j) /\ j \in failing}}
    IN  [connections |-> [i \in Slots |->
                             IF live(w.connections, i) /\ i \in failing
                             THEN free_conn ELSE w.connections[i]],
         peer |-> [c \in Clients |->
                      IF c \in bad THEN [w.peer[c] EXCEPT !.st = "ended"]
                      ELSE IF c \in fds
                      THEN [w.peer[c] EXCEPT
                               !.rx = Append(@, rx_line(msg, cause, k))]
                      ELSE w.peer[c]]]

\* the lines of one message written last line first
RECURSIVE write_lines_reversed(_, _, _, _, _)
write_lines_reversed(w, lines, cause, k, failing) ==
    IF lines = <<>> THEN w
    ELSE write_lines_reversed(
             write_to_connections(w, lines[Len(lines)], cause,
                                  k + Len(lines) - 1, failing),
             SubSeq(lines, 1, Len(lines) - 1), cause, k, failing)

\* the lines of one message, each written to all connections, in order
RECURSIVE write_lines(_, _, _, _, _)
write_lines(w, lines, cause, k, failing) ==
    IF lines = <<>> THEN w
    ELSE write_lines(write_to_connections(w, Head(lines), cause, k, failing),
                     Tail(lines), cause, k + 1, failing)

\* the connections a write may fail on: those whose client has closed
may_fail(conns, prs) == {i \in Slots : live(conns, i) /\ prs[conns[i].fd].closed}

\* open_connection() with the check of the capacity before the greeting
open_connection_refuse_first(w, fd, greeted) ==
    LET got(line) == [w.peer EXCEPT ![fd].rx = Append(@, rx_line(line, 0, 0))]
        ended(p)  == [p EXCEPT ![fd].st = "ended"]
        full == \A i \in Slots : live(w.connections, i)
        slot == CHOOSE i \in Slots :
                    /\ ~live(w.connections, i)
                    /\ \A j \in 1..(i - 1) : live(w.connections, j)
    IN  IF full
        THEN [w |-> [w EXCEPT !.peer = ended(got(max_conns))], ret |-> -1]
        ELSE IF ~greeted
        THEN [w |-> [w EXCEPT !.peer = ended(w.peer)], ret |-> -2]
        ELSE [w |-> [connections |->
                        [w.connections EXCEPT
                            ![slot] = [fd |-> fd, recv_buf |-> zero_buf,
                                       recv_buf_pos |-> 0]],
                     peer |-> [got(startup_msg) EXCEPT ![fd].st = "open"]],
              ret |-> 0]

\* open_connection() taking the last slot of a full pool for the new
\* connection
open_connection_evict(w, fd, greeted) ==
    LET got(line) == [w.peer EXCEPT ![fd].rx = Append(@, rx_line(line, 0, 0))]
        ended(p)  == [p EXCEPT ![fd].st = "ended"]
        full == \A i \in Slots : live(w.connections, i)
        slot == IF full THEN MAX_CONNECTIONS
                ELSE CHOOSE i \in Slots :
                         /\ ~live(w.connections, i)
                         /\ \A j \in 1..(i - 1) : live(w.connections, j)
    IN  IF ~greeted
        THEN [w |-> [w EXCEPT !.peer = ended(w.peer)], ret |-> -2]
        ELSE [w |-> [connections |->
                        [w.connections EXCEPT
                            ![slot] = [fd |-> fd, recv_buf |-> zero_buf,
                                       recv_buf_pos |-> 0]],
                     peer |-> [got(startup_msg) EXCEPT ![fd].st = "open"]],
              ret |-> 0]

\* [w, ret]; greeted: whether the write of the startup message succeeded
open_connection(w, fd, greeted) ==
    LET got(line) == [w.peer EXCEPT ![fd].rx = Append(@, rx_line(line, 0, 0))]
        ended(p)  == [p EXCEPT ![fd].st = "ended"]
        full == \A i \in Slots : live(w.connections, i)
        slot == CHOOSE i \in Slots :
                    /\ ~live(w.connections, i)
                    /\ \A j \in 1..(i - 1) : live(w.connections, j)
    IN  IF ~greeted
        THEN [w |-> [w EXCEPT !.peer = ended(w.peer)], ret |-> -2]
        ELSE IF full
        THEN [w |-> [w EXCEPT
                        !.peer = ended([got(startup_msg) EXCEPT
                                   ![fd].rx = Append(@, rx_line(max_conns, 0, 0))])],
              ret |-> -1]
        ELSE [w |-> [connections |->
                        [w.connections EXCEPT
                            ![slot] = [fd |-> fd, recv_buf |-> zero_buf,
                                       recv_buf_pos |-> 0]],
                     peer |-> [got(startup_msg) EXCEPT ![fd].st = "open"]],
              ret |-> 0]

(***************************************************************************)
(* onkyo.c: pacing.  now is what gettimeofday() returns in the function.   *)
(***************************************************************************)
\* can_send_command() without the comparison with COMMAND_WAIT
can_send_always(last, t) == [ok |-> TRUE, timeoutval |-> NoTimeout]

\* [ok, timeoutval]; timeoutval is left as it was (NoTimeout) when ok
\* can_send_command() with the wait itself taken for long enough
can_send_command_at_wait(last, t) ==
    LET secs0  == t.tv_sec - last.tv_sec
        usecs0 == t.tv_usec - last.tv_usec
        secs   == IF usecs0 < 0 THEN secs0 - 1 ELSE secs0
        usecs  == IF usecs0 < 0 THEN usecs0 + 1000000 ELSE usecs0
        wait_sec  == (1000 * COMMAND_WAIT) \div 1000000
        wait_usec == 1000 * COMMAND_WAIT - wait_sec * 1000000
        to_sec  == wait_sec - secs
        to_usec == wait_usec - usecs
    IN  IF secs > wait_sec \/ (secs = wait_sec /\ usecs >= wait_usec)
        THEN [ok |-> TRUE, timeoutval |-> NoTimeout]
        ELSE [ok |-> FALSE,
              timeoutval |-> IF to_usec < 0
                             THEN timeval(to_sec - 1, to_usec + 1000000)
                             ELSE timeval(to_sec, to_usec)]

can_send_command(last, t) ==
    LET secs0  == t.tv_sec - last.tv_sec
        usecs0 == t.tv_usec - last.tv_usec
        secs   == IF usecs0 < 0 THEN secs0 - 1 ELSE secs0
        usecs  == IF usecs0 < 0 THEN usecs0 + 1000000 ELSE usecs0
        wait_sec  == (1000 * COMMAND_WAIT) \div 1000000
        wait_usec == 1000 * COMMAND_WAIT - wait_sec * 1000000
        to_sec  == wait_sec - secs
        to_usec == wait_usec - usecs
    IN  IF secs > wait_sec \/ (secs = wait_sec /\ usecs > wait_usec)
        THEN [ok |-> TRUE, timeoutval |-> NoTimeout]
        ELSE [ok |-> FALSE,
              timeoutval |-> IF to_usec < 0
                             THEN timeval(to_sec - 1, to_usec + 1000000)
                             ELSE timeval(to_sec, to_usec)]

\* deliver() writing the error line to every connection
RECURSIVE deliver_all(_, _, _, _)
deliver_all(w, events, fd, failing) ==
    IF events = <<>> THEN w
    ELSE deliver_all(write_to_connections(w, Head(events).line, 0, 0, failing),
                     Tail(events), fd, failing)

\* what the handler of a command wrote while the line was processed:
\* lines for every connection, and the error line of the issuer alone
RECURSIVE deliver(_, _, _, _)
deliver(w, events, fd, failing) ==
    IF events = <<>> THEN w
    ELSE LET e == Head(events)
         IN  deliver(IF e.to = "self"
                     THEN [w EXCEPT !.peer[fd].rx = Append(@, rx_line(e.line, 0, 0))]
                     ELSE write_to_connections(w, e.line, 0, 0, failing),
                     Tail(events), fd, failing)

\* a line that made process_command() return -2 marks the connection for
\* closure; the lines after it in the same read are still processed
mark_quit(quit, processret) == quit \/ processret = -2

\* what the read pass returns for a connection marked for closure
close_marked(ret, quit) == IF quit THEN -2 ELSE ret

\* the loop of process_input() over the bytes it has read;
\* s = [buf, pos, count, ret, rcvr, events, lines, quit], pos an offset
\* into buf, lines the strings passed to process_command() (history);
\* written: whether a write to the connection itself succeeds
RECURSIVE scan_input(_, _, _)
scan_input(s, t, written) ==
    LET moved(res, ret) ==
            [buf |-> [j \in 1..BUF_SIZE |->
                         IF j <= s.count - 1 THEN s.buf[s.pos + 1 + j] ELSE 0],
             pos |-> 0, count |-> s.count - 1, ret |-> ret, rcvr |-> res.rcvr,
             lines |-> Append(s.lines, cstring([s.buf EXCEPT ![s.pos + 1] = 0])),
             quit |-> mark_quit(s.quit, res.ret),
             events |-> s.events
                          \o [k \in 1..Len(res.out) |->
                                 [to |-> "all", line |-> res.out[k]]]
                          \o (IF res.ret = -1 /\ written
                              THEN <<[to |-> "self", line |-> invalid_cmd]>>
                              ELSE <<>>)]
        continue(s2) == IF s2.ret = -2 THEN s2 ELSE scan_input(s2, t, written)
        processed(res) ==
            continue(moved(res, IF res.ret = -1 /\ ~written THEN -2 ELSE s.ret))
        \* the bytes from the one looked at to the first that is a newline
        \* or the last of the buffer: the loop passes over them one by one
        stops == {j \in 0..(s.count - 1) :
                     s.buf[s.pos + 1 + j] = 10 \/ BUF_SIZE - (s.pos + j) <= 1}
        skip  == IF stops = {} THEN s.count
                 ELSE CHOOSE j \in stops : \A k \in stops : j <= k
    IN  IF s.count <= 0 THEN s
        ELSE IF s.buf[s.pos + 1] = 10
        THEN processed(process_command(
                           s.rcvr, cstring([s.buf EXCEPT ![s.pos + 1] = 0]), t))
        ELSE IF BUF_SIZE - s.pos <= 1
        THEN [s EXCEPT !.buf = zero_buf, !.pos = 0, !.ret = -3]
        ELSE scan_input([s EXCEPT !.pos = @ + skip, !.count = @ - skip], t, written)

\* process_input() reading to the start of recv_buf whatever it holds
process_input_from_start(w, r, i, t, written, failing) ==
    LET c    == w.connections[i]
        tx   == w.peer[c.fd].tx
        n    == IF Len(tx) < BUF_SIZE THEN Len(tx) ELSE BUF_SIZE
        buf0 == [j \in 1..BUF_SIZE |-> IF j <= n THEN tx[j] ELSE 0]
        done(s) ==
            [w |-> deliver([connections |-> [w.connections EXCEPT
                                                ![i].recv_buf = s.buf,
                                                ![i].recv_buf_pos = s.pos],
                            peer |-> [w.peer EXCEPT
                                         ![c.fd].tx = SubSeq(@, n + 1, Len(@))]],
                           s.events, c.fd, failing),
             rcvr |-> s.rcvr, ret |-> close_marked(s.ret, s.quit),
             lines |-> s.lines]
    IN  done(scan_input([buf |-> buf0, pos |-> 0, count |-> n,
                         ret |-> IF n = 0 THEN -1 ELSE 0, rcvr |-> r,
                         lines |-> <<>>, quit |-> FALSE,
                         events |-> <<>>], t, written))

\* [w, rcvr, ret, lines] for connection slot i
process_input(w, r, i, t, written, failing) ==
    LET c    == w.connections[i]
        tx   == w.peer[c.fd].tx
        room == BUF_SIZE - c.recv_buf_pos
        n    == IF Len(tx) < room THEN Len(tx) ELSE room
        buf0 == [j \in 1..BUF_SIZE |->
                    IF j > c.recv_buf_pos /\ j <= c.recv_buf_pos + n
                    THEN tx[j - c.recv_buf_pos] ELSE c.recv_buf[j]]
        done(s) ==
            [w |-> deliver([connections |-> [w.connections EXCEPT
                                                ![i].recv_buf = s.buf,
                                                ![i].recv_buf_pos = s.pos],
                            peer |-> [w.peer EXCEPT
                                         ![c.fd].tx = SubSeq(@, n + 1, Len(@))]],
                           s.events, c.fd, failing),
             rcvr |-> s.rcvr, ret |-> close_marked(s.ret, s.quit),
             lines |-> s.lines]
    IN  done(scan_input([buf |-> buf0, pos |-> c.recv_buf_pos, count |-> n,
                         ret |-> IF n = 0 THEN -1 ELSE 0, rcvr |-> r,
                         lines |-> <<>>, quit |-> FALSE,
                         events |-> <<>>], t, written))

(***************************************************************************)
(* onkyo.c: main().  After select() the loop looks at the signal pipe, the *)
(* serial line for reading, the serial line for writing, the listener and  *)
(* the connections, in this order; a step whose descriptor is not ready    *)
(* does nothing and is passed over.                                        *)
(***************************************************************************)
\* the steps with the write to the serial line before the read of it
PhasesWriteFirst ==
    <<"signal", "serial_write", "serial_read", "sleep_update", "accept", "input">>

\* (sleep_update: the countdown of the sleep timers, due when the time of
\* the next update is set and not after the time the loop has read)
Phases ==
    <<"signal", "serial_read", "serial_write", "sleep_update", "accept", "input">>

phase_ready(p, rd, r, conns) ==
    CASE p = "signal"       -> rd.signal
      [] p = "serial_read"  -> rd.serial_rd
      [] p = "serial_write" -> r.queue # <<>> /\ rd.serial_wr
      [] p = "sleep_update" -> /\ r.next_sleep_update # timeval_zero
                               /\ usec_of(r.next_sleep_update) <= usec_of(sel.entered)
      [] p = "accept"       -> rd.listener
      [] p = "input"        -> \E i \in Slots : live(conns, i) /\ conns[i].fd \in rd.conns

\* the first step from the n-th on that has something to do
next_phase(n, rd, r, conns) ==
    LET todo == {k \in n..Len(Phases) : phase_ready(Phases[k], rd, r, conns)}
    IN  IF todo = {} THEN "top"
        ELSE Phases[CHOOSE k \in todo : \A j \in todo : k <= j]

\* the top of the loop: the descriptor sets and the timeout of select()
LoopTop ==
    /\ pc = "top"
    /\ LET can == can_send_command(rcvr.last_cmd, now)
           wait == rcvr.queue # <<>> /\ ~can.ok
       IN  sel' = [writefds |-> rcvr.queue # <<>> /\ can.ok,
                   timeout |-> IF wait THEN can.timeoutval ELSE NoTimeout,
                   entered |-> IF wait THEN now ELSE timeval_zero,
                   ready |-> nothing_ready]
    /\ pc' = "select"
    /\ UNCHANGED <<now, rcvr, connections, signalpipe, serial_in, serial_out,
                   backlog, peer, count,
                   io, proc>>

readable == {connections[i].fd :
                i \in {j \in Slots : /\ live(connections, j)
                                     /\ \/ peer[connections[j].fd].tx # <<>>
                                        \/ peer[connections[j].fd].closed}}

read_ready ==
    [signal |-> signalpipe # <<>>, serial_rd |-> serial_in # <<>>,
     serial_wr |-> FALSE, listener |-> backlog # <<>>, conns |-> readable]

timed_out ==
    /\ sel.timeout # NoTimeout
    /\ usec_of(now) - usec_of(sel.entered) >= usec_of(sel.timeout)

\* select() returns: a descriptor is ready or the timeout has run out
\* (the serial line takes a write whenever it is asked for)
SelectReturn ==
    /\ pc = "select"
    /\ LET rd == [read_ready EXCEPT !.serial_wr = sel.writefds]
       IN  /\ rd # nothing_ready \/ timed_out
           /\ sel' = [sel EXCEPT !.ready = rd]
           /\ pc' = next_phase(1, rd, rcvr, connections)
    /\ UNCHANGED <<now, rcvr, connections, signalpipe, serial_in, serial_out,
                   backlog, peer, count,
                   io, proc>>

\* realhandler(): SIGINT ends the program through cleanup(), SIGPIPE and
\* SIGUSR1 only print
realhandler(signo) == IF signo = "SIGINT" THEN "exit" ELSE "continue"

\* cleanup() leaving the connections as they are
cleanup_keep_connections(d, ret) ==
    [d EXCEPT !.rcvr.queue = <<>>,
              !.backlog = <<>>,
              !.proc = [serialdev |-> FALSE, logfd |-> FALSE, listener |-> FALSE,
                        signalpipe_rd |-> FALSE, signalpipe_wr |-> FALSE,
                        status |-> ret]]

\* d = [rcvr, connections, peer, backlog, proc]: the queue is freed, the
\* serial device, the log, the listener (and with it the connections not
\* yet accepted), the connections and the signal pipe are closed, and the
\* program exits with ret
cleanup(d, ret) ==
    [rcvr |-> [d.rcvr EXCEPT !.queue = <<>>],
     connections |-> [i \in Slots |-> free_conn],
     peer |-> [c \in Clients |->
                  IF d.peer[c].st \in {"open", "queued"}
                  THEN [d.peer[c] EXCEPT !.st = "ended"] ELSE d.peer[c]],
     backlog |-> <<>>,
     proc |-> [serialdev |-> FALSE, logfd |-> FALSE, listener |-> FALSE,
               signalpipe_rd |-> FALSE, signalpipe_wr |-> FALSE,
               status |-> ret]]

HandleSignal ==
    /\ pc = "signal"
    /\ signalpipe' = Tail(signalpipe)
    /\ IF realhandler(Head(signalpipe)) = "exit"
       THEN LET exited(d) ==
                    /\ rcvr' = d.rcvr
                    /\ connections' = d.connections
                    /\ peer' = d.peer
                    /\ backlog' = d.backlog
                    /\ proc' = d.proc
                    /\ pc' = "exit"
            IN  exited(cleanup([rcvr |-> rcvr, connections |-> connections,
                                peer |-> peer, backlog |-> backlog,
                                proc |-> proc], "EXIT_SUCCESS"))
       ELSE /\ pc' = next_phase(2, sel.ready, rcvr, connections)
            /\ UNCHANGED <<rcvr, connections, peer, backlog, proc>>
    /\ UNCHANGED <<now, sel, serial_in, serial_out, count, io>>

\* a message of the receiver is read, parsed and its lines broadcast
SerialRead ==
    /\ pc = "serial_read"
    /\ \E failing \in SUBSET may_fail(connections, peer) :
          LET msg == Head(serial_in)
              written(r, w) ==
                  /\ rcvr' = r
                  /\ connections' = w.connections
                  /\ peer' = w.peer
                  /\ pc' = next_phase(3, sel.ready, r, w.connections)
              handled(res) ==
                  written(res.rcvr,
                          write_lines([connections |-> connections, peer |-> peer],
                                      res.out, msg.seq, 1, failing))
          IN  handled(process_incoming_message(rcvr, msg.bytes))
    /\ serial_in' = Tail(serial_in)
    /\ UNCHANGED <<now, sel, signalpipe, serial_out, backlog, count,
                   io, proc>>

\* how many inputs the environment has given
events ==
    count.sends + count.replies + count.signals + count.faults
      + Cardinality({c \in Clients : peer[c].st # "idle"})
      + Cardinality({c \in Clients : peer[c].closed})

\* one command of the queue is written to the receiver
SerialWrite ==
    /\ pc = "serial_write"
    /\ \E outcome \in {"full"} \cup (IF /\ count.faults < MaxWriteFaults
                                        /\ events < MaxEvents
                                     THEN {"short", "fail"} ELSE {}) :
          LET sent(res) ==
                /\ rcvr' = res.rcvr
                /\ serial_out' =
                      IF res.wrote = no_write THEN serial_out
                      ELSE Append(serial_out,
                                  [bytes |-> res.wrote.bytes, seq |-> res.wrote.seq,
                                   at |-> now, power |-> rcvr.power])
                /\ count' = [count EXCEPT
                                !.faults = IF outcome = "full" THEN @ ELSE @ + 1]
                /\ pc' = next_phase(4, sel.ready, res.rcvr, connections)
          IN  sent(rcvr_send_command(rcvr, now, outcome))
    /\ UNCHANGED <<now, connections, sel, signalpipe, serial_in, backlog, peer,
                   io, proc>>

\* the listener accepts one connection
Accept ==
    /\ pc = "accept"
    /\ \E greeted \in (IF peer[Head(backlog)].closed THEN BOOLEAN ELSE {TRUE}) :
          LET opened(res) ==
                /\ connections' = res.w.connections
                /\ peer' = res.w.peer
                /\ pc' = next_phase(6, sel.ready, rcvr, res.w.connections)
          IN  opened(open_connection([connections |-> connections, peer |-> peer],
                                     Head(backlog), greeted))
    /\ backlog' = Tail(backlog)
    /\ UNCHANGED <<now, rcvr, sel, signalpipe, serial_in, serial_out, count,
                   io, proc>>

\* the slot the loop over the connections comes to next
input_slot ==
    CHOOSE k \in Slots :
        /\ live(connections, k) /\ connections[k].fd \in sel.ready.conns
        /\ \A j \in 1..(k - 1) :
              ~(live(connections, j) /\ connections[j].fd \in sel.ready.conns)

\* the first connection found readable is read and its lines are processed
Input ==
    /\ pc = "input"
    /\ LET i  == input_slot
           fd == connections[i].fd
       IN  \E written \in (IF peer[fd].closed THEN BOOLEAN ELSE {TRUE}),
              failing \in SUBSET (may_fail(connections, peer) \ {i}) :
              LET rd == [sel.ready EXCEPT !.conns = @ \ {fd}]
                  ended(r, w, lines) ==
                      /\ rcvr' = r
                      /\ connections' = w.connections
                      /\ peer' = w.peer
                      /\ io' = [io EXCEPT ![fd].handed = @ \o lines]
                      /\ sel' = [sel EXCEPT !.ready = rd]
                      /\ pc' = next_phase(6, rd, r, w.connections)
                  read(res) ==
                      ended(res.rcvr,
                            IF res.ret \in {-1, -2} /\ live(res.w.connections, i)
                            THEN end_connection(res.w, i) ELSE res.w,
                            res.lines)
              IN  read(process_input([connections |-> connections, peer |-> peer],
                                     rcvr, i, now, written,
                                     failing \cup (IF written THEN {} ELSE {i})))
    /\ UNCHANGED <<now, signalpipe, serial_in, serial_out, backlog, count,
                   proc>>

(***************************************************************************)
(* The environment: the clock, the receiver, the clients and the signals.  *)
(* It acts while main() is in select(); what it does while main() works    *)
(* through the descriptors is seen by the next select().                   *)
(***************************************************************************)
\* what the clients write: whole lines
ClientInputs ==
    { (*"power on\n"*) <<112, 111, 119, 101, 114, 32, 111, 110, 10>>, (*"mute on\n"*) <<109, 117, 116, 101, 32, 111, 110, 10>>, (*"volume 40\n"*) <<118, 111, 108, 117, 109, 101, 32, 52, 48, 10>>, (*"volume 101\n"*) <<118, 111, 108, 117, 109, 101, 32, 49, 48, 49, 10>>,
      (*"bogus\n"*) <<98, 111, 103, 117, 115, 10>> }

\* what the receiver sends
ReceiverMessages ==
    { (*"!1PWR01\z"*) <<33, 49, 80, 87, 82, 48, 49, 26>>, (*"!1PWR00\z"*) <<33, 49, 80, 87, 82, 48, 48, 26>>, (*"!1MVL28\z"*) <<33, 49, 77, 86, 76, 50, 56, 26>> }

Signals == {"SIGINT", "SIGUSR1", "SIGPIPE"}

\* time passes while select() waits, nothing is there to be read and a
\* command is in the queue (the clock is read for nothing but the pacing)
Elapse(d) ==
    /\ pc = "select"
    /\ read_ready = nothing_ready
    /\ rcvr.queue # <<>>
    /\ ~timed_out \/ sel.timeout = timeval_zero
    /\ usec_of(now) + d <= usec_of(start_time) + 1000 * MaxTime
    /\ now' = timeval_of(usec_of(now) + d)
    /\ UNCHANGED <<rcvr, connections, pc, sel, signalpipe, serial_in, serial_out,
                   backlog, peer, count,
                   io, proc>>

ReceiverSends(bytes) ==
    /\ pc = "select"
    /\ events < MaxEvents
    /\ count.replies < MaxReplies
    /\ serial_in' = Append(serial_in, [seq |-> count.replies + 1, bytes |-> bytes])
    /\ count' = [count EXCEPT !.replies = @ + 1]
    /\ UNCHANGED <<now, rcvr, connections, pc, sel, signalpipe, serial_out,
                   backlog, peer,
                   io, proc>>

ClientConnect(c) ==
    /\ pc = "select"
    /\ events < MaxEvents
    /\ peer[c].st = "idle"
    /\ \A b \in 1..(c - 1) : peer[b].st # "idle"
    /\ peer' = [peer EXCEPT ![c].st = "queued"]
    /\ backlog' = Append(backlog, c)
    /\ UNCHANGED <<now, rcvr, connections, pc, sel, signalpipe, serial_in,
                   serial_out, count,
                   io, proc>>

ClientSend(c, bytes) ==
    /\ pc = "select"
    /\ events < MaxEvents
    /\ peer[c].st = "open"
    /\ ~peer[c].closed
    /\ count.sends < MaxSends
    /\ peer' = [peer EXCEPT ![c].tx = @ \o bytes]
    /\ io' = [io EXCEPT ![c].sent = @ \o bytes]
    /\ count' = [count EXCEPT !.sends = @ + 1]
    /\ UNCHANGED <<now, rcvr, connections, pc, sel, signalpipe, serial_in,
                   serial_out, backlog, proc>>

ClientClose(c) ==
    /\ pc = "select"
    /\ events < MaxEvents
    /\ peer[c].st \in {"queued", "open"}
    /\ ~peer[c].closed
    /\ peer' = [peer EXCEPT ![c].closed = TRUE]
    /\ UNCHANGED <<now, rcvr, connections, pc, sel, signalpipe, serial_in,
                   serial_out, backlog, count,
                   io, proc>>

\* pipehandler(): the signal number goes into the pipe
SignalArrives(signo) ==
    /\ pc = "select"
    /\ events < MaxEvents
    /\ count.signals < MaxSignals
    /\ signalpipe' = Append(signalpipe, signo)
    /\ count' = [count EXCEPT !.signals = @ + 1]
    /\ UNCHANGED <<now, rcvr, connections, pc, sel, serial_in, serial_out,
                   backlog, peer,
                   io, proc>>

Next ==
    \/ LoopTop
    \/ SelectReturn
    \/ HandleSignal
    \/ SerialRead
    \/ SerialWrite
    \/ Accept
    \/ Input
    \/ \E d \in Deltas : Elapse(d)
    \/ \E bytes \in ReceiverMessages : ReceiverSends(bytes)
    \/ \E c \in Clients : ClientConnect(c)
    \/ \E c \in Clients, bytes \in ClientInputs : ClientSend(c, bytes)
    \/ \E c \in Clients : ClientClose(c)
    \/ \E signo \in Signals : SignalArrives(signo)

Spec == Init /\ [][Next]_vars

(***************************************************************************)
(* The daemon with clients that write their lines in pieces: several lines *)
(* in one write, a line in two writes, lines of 63 bytes and of more, and  *)
(* quit.  The receiver is silent, no signal arrives, no client closes and  *)
(* the serial line takes every write whole.                                *)
(***************************************************************************)
\* chunks of bytes the clients write, in all
MaxChunks == 3

\* BUF_SIZE bytes without a newline
overlong == [j \in 1..BUF_SIZE |-> 120]

\* a line of BUF_SIZE - 1 bytes, the longest the buffer takes
longest == [j \in 1..BUF_SIZE |-> IF j < BUF_SIZE THEN 120 ELSE 10]

FrameChunks ==
    { (*"volume 42\nvolume 43\n"*) <<118, 111, 108, 117, 109, 101, 32, 52, 50, 10, 118, 111, 108, 117, 109, 101, 32, 52, 51, 10>>, (*"volu"*) <<118, 111, 108, 117>>, (*"me 42\n"*) <<109, 101, 32, 52, 50, 10>>, (*"quit now\n"*) <<113, 117, 105, 116, 32, 110, 111, 119, 10>>,
      (*"power on\n"*) <<112, 111, 119, 101, 114, 32, 111, 110, 10>>, overlong, longest }

FrameSend(c, bytes) ==
    /\ pc = "select"
    /\ events < MaxEvents
    /\ peer[c].st = "open"
    /\ ~peer[c].closed
    /\ count.sends < MaxChunks
    /\ peer' = [peer EXCEPT ![c].tx = @ \o bytes]
    /\ io' = [io EXCEPT ![c].sent = @ \o bytes]
    /\ count' = [count EXCEPT !.sends = @ + 1]
    /\ UNCHANGED <<now, rcvr, connections, pc, sel, signalpipe, serial_in,
                   serial_out, backlog, proc>>

FrameNext ==
    \/ LoopTop
    \/ SelectReturn
    \/ SerialWrite /\ count' = count
    \/ Accept
    \/ Input
    \/ \E d \in Deltas : Elapse(d)
    \/ \E c \in Clients : ClientConnect(c)
    \/ \E c \in Clients, bytes \in FrameChunks : FrameSend(c, bytes)

FrameSpec == Init /\ [][FrameNext]_vars

(***************************************************************************)
(* The sleep timers of zones 2 and 3.  The loop reads the clock at its     *)
(* top, lets a deadline that is reached switch its zone off, and gives the *)
(* time to the nearest deadline, to the next update of the countdown and   *)
(* to the end of the pacing wait to select() as its timeout; after the     *)
(* serial line it writes the countdown when the update is due.  The        *)
(* countdown is scheduled while a deadline is active: it begins a minute   *)
(* after the loop first finds one and is dropped when none is left.        *)
(***************************************************************************)
\* seconds the clock advances, in all
MaxSleepTime == 150
\* microseconds select() returns after its timeout has run out
Latency == 1000

\* the steps the clock advances by while select() waits, in microseconds
SleepDeltas == {25000000}

\* the interval of the countdown, in microseconds
sleep_interval == 60 * 1000000

\* a wait folded into the timeout so far, which is zero while none is set
fold(T, d) == timeval_min(T, d)

zone_sleep(r, zone) == IF zone = 50 THEN r.zone2_sleep ELSE r.zone3_sleep

zone_power_off(zone) == IF zone = 50 THEN (*"zone2power off"*) <<122, 111, 110, 101, 50, 112, 111, 119, 101, 114, 32, 111, 102, 102>> ELSE (*"zone3power off"*) <<122, 111, 110, 101, 51, 112, 111, 119, 101, 114, 32, 111, 102, 102>>

\* one zone's timer at the top of the loop; s = [rcvr, out, timeout, due]
sleep_zone(s, t, zone) ==
    LET when == zone_sleep(s.rcvr, zone)
        left == usec_of(when) - usec_of(t)
        expired(off) ==
            [rcvr |-> IF zone = 50
                      THEN [off.rcvr EXCEPT !.zone2_sleep = timeval_zero]
                      ELSE [off.rcvr EXCEPT !.zone3_sleep = timeval_zero],
             out |-> s.out \o off.out
                       \o <<write_fakesleep_status(off.rcvr, t, zone)>>,
             timeout |-> s.timeout, due |-> s.due]
    IN  IF when = timeval_zero THEN s
        ELSE IF left > 0 THEN [s EXCEPT !.timeout = fold(@, timeval_diff(when, t))]
        ELSE expired(process_command(s.rcvr, zone_power_off(zone), t))

\* the countdown is scheduled when a deadline is active; an update that is
\* due lets select() return at once
sleep_schedule(s, t) ==
    LET next == IF s.rcvr.next_sleep_update # timeval_zero
                THEN s.rcvr.next_sleep_update
                ELSE timeval_of(usec_of(t) + sleep_interval)
        left == usec_of(next) - usec_of(t)
    IN  IF s.rcvr.zone2_sleep # timeval_zero \/ s.rcvr.zone3_sleep # timeval_zero
        THEN IF left > 0
             THEN [s EXCEPT !.rcvr.next_sleep_update = next,
                            !.timeout = fold(@, timeval_diff(next, t))]
             ELSE [s EXCEPT !.rcvr.next_sleep_update = next, !.due = TRUE]
        ELSE [s EXCEPT !.rcvr.next_sleep_update = timeval_zero]

\* [rcvr, out, timeout, due]: the timers of the receiver at the top of the
\* loop
sleep_timers(r, t) ==
    sleep_schedule(
        sleep_zone(sleep_zone([rcvr |-> r, out |-> <<>>, timeout |-> timeval_zero,
                               due |-> FALSE], t, 50),
                   t, 51), t)

\* [rcvr, out]: the countdown of the active zones, and the next update moved
\* on by whole intervals until it is after t
sleep_update(r, t) ==
    LET behind == usec_of(t) - usec_of(r.next_sleep_update)
    IN  [rcvr |-> [r EXCEPT !.next_sleep_update =
                      timeval_of(usec_of(@)
                                 + sleep_interval * (behind \div sleep_interval + 1))],
         out |-> (IF r.zone2_sleep # timeval_zero
                  THEN <<write_fakesleep_status(r, t, 50)>> ELSE <<>>)
                 \o (IF r.zone3_sleep # timeval_zero
                     THEN <<write_fakesleep_status(r, t, 51)>> ELSE <<>>)]

\* the top of the loop with the sleep timers
SleepLoopTop ==
    /\ pc = "top"
    /\ \E failing \in SUBSET may_fail(connections, peer) :
          LET set(tm, w) ==
                /\ rcvr' = tm.rcvr
                /\ connections' = w.connections
                /\ peer' = w.peer
                /\ LET can  == can_send_command(tm.rcvr.last_cmd, now)
                       wait == tm.rcvr.queue # <<>> /\ ~can.ok
                       T    == IF wait THEN fold(tm.timeout, can.timeoutval)
                               ELSE tm.timeout
                   IN  sel' = [writefds |-> tm.rcvr.queue # <<>> /\ can.ok,
                               timeout |-> IF tm.due THEN timeval_zero
                                           ELSE IF timeval_positive(T) THEN T
                                           ELSE NoTimeout,
                               entered |-> now,
                               ready |-> nothing_ready]
              timers(tm) ==
                  set(tm, write_lines([connections |-> connections, peer |-> peer],
                                      tm.out, 0, 0, failing))
          IN  timers(sleep_timers(rcvr, now))
    /\ pc' = "select"
    /\ UNCHANGED <<now, signalpipe, serial_in, serial_out, backlog, count,
                   io, proc>>

\* the countdown is written and the next update is moved on
SleepUpdate ==
    /\ pc = "sleep_update"
    /\ \E failing \in SUBSET may_fail(connections, peer) :
          LET set(up, w) ==
                /\ rcvr' = up.rcvr
                /\ connections' = w.connections
                /\ peer' = w.peer
                /\ pc' = next_phase(5, sel.ready, up.rcvr, w.connections)
              updated(up) ==
                  set(up, write_lines([connections |-> connections, peer |-> peer],
                                      up.out, 0, 0, failing))
          IN  updated(sleep_update(rcvr, sel.entered))
    /\ UNCHANGED <<now, sel, signalpipe, serial_in, serial_out, backlog, count,
                   io, proc>>

\* time passes while select() waits with nothing to read or write: by d, or
\* until the timeout has run out when that comes before
SleepElapse(d) ==
    /\ pc = "select"
    /\ read_ready = nothing_ready
    /\ ~sel.writefds
    /\ LET wake == usec_of(sel.entered) + usec_of(sel.timeout) + Latency
           to   == IF sel.timeout # NoTimeout /\ usec_of(now) + d > wake
                   THEN wake ELSE usec_of(now) + d
       IN  /\ to > usec_of(now)
           /\ to <= usec_of(start_time) + 1000000 * MaxSleepTime
           /\ now' = timeval_of(to)
    /\ UNCHANGED <<rcvr, connections, pc, sel, signalpipe, serial_in, serial_out,
                   backlog, peer, count, io, proc>>

\* what the clients write
SleepInputs ==
    { (*"zone2sleep 2\n"*) <<122, 111, 110, 101, 50, 115, 108, 101, 101, 112, 32, 50, 10>>, (*"zone3sleep 1\n"*) <<122, 111, 110, 101, 51, 115, 108, 101, 101, 112, 32, 49, 10>>, (*"zone2sleep off\n"*) <<122, 111, 110, 101, 50, 115, 108, 101, 101, 112, 32, 111, 102, 102, 10>>, (*"zone2sleep\n"*) <<122, 111, 110, 101, 50, 115, 108, 101, 101, 112, 10>> }

\* what the receiver sends
SleepMessages == { (*"!1PWR01\z"*) <<33, 49, 80, 87, 82, 48, 49, 26>>, (*"!1ZPW00\z"*) <<33, 49, 90, 80, 87, 48, 48, 26>> }

SleepNext ==
    \/ SleepLoopTop
    \/ SelectReturn
    \/ SerialRead
    \/ SerialWrite /\ count' = count
    \/ SleepUpdate
    \/ Accept
    \/ Input
    \/ \E d \in SleepDeltas : SleepElapse(d)
    \/ \E bytes \in SleepMessages : ReceiverSends(bytes)
    \/ \E c \in Clients : ClientConnect(c)
    \/ \E c \in Clients, bytes \in SleepInputs : ClientSend(c, bytes)

SleepSpec == Init /\ [][SleepNext]_vars

(***************************************************************************)
(* The daemon with a serial line that delivers noise: a read of nothing,   *)
(* bytes without the start characters, the start characters after bytes    *)
(* that do not belong, and whole messages.  A client sets a sleep timer;   *)
(* the loop is the one without the timers, so the deadline stays until the *)
(* receiver reports the zone off.  The serial line takes every write       *)
(* whole.                                                                  *)
(***************************************************************************)
\* reads that hold no message
NoiseReads ==
    { <<>>, (*"garbage\z"*) <<103, 97, 114, 98, 97, 103, 101, 26>>, (*"1!PWR01\z"*) <<49, 33, 80, 87, 82, 48, 49, 26>> }

\* what the serial line delivers
NoiseMessages ==
    NoiseReads \cup { (*"!1PWR01\z"*) <<33, 49, 80, 87, 82, 48, 49, 26>>, <<0, 0>> \o (*"!1ZPW00\z"*) <<33, 49, 90, 80, 87, 48, 48, 26>> }

NoiseNext ==
    \/ LoopTop
    \/ SelectReturn
    \/ SerialRead
    \/ SerialWrite /\ count' = count
    \/ Accept
    \/ Input
    \/ \E d \in Deltas : Elapse(d)
    \/ \E bytes \in NoiseMessages : ReceiverSends(bytes)
    \/ \E c \in Clients : ClientConnect(c)
    \/ \E c \in Clients : ClientSend(c, (*"zone2sleep 2\n"*) <<122, 111, 110, 101, 50, 115, 108, 101, 101, 112, 32, 50, 10>>)

NoiseSpec == Init /\ [][NoiseNext]_vars

(***************************************************************************)
(* The daemon with one client that writes one chunk of command lines, and  *)
(* a receiver that reports back the setting it was sent.  It begins where  *)
(* the daemon has written its power query, has read that the main zone is  *)
(* on and has accepted the client, whose bytes are in the socket.          *)
(***************************************************************************)
\* a command line: the name, a space, the argument and a newline
cmd_line(name, arg) == name \o <<32>> \o arg \o <<10>>

\* the commands that set a volume
VolumeNames == { (*"volume"*) <<118, 111, 108, 117, 109, 101>>, (*"zone2volume"*) <<122, 111, 110, 101, 50, 118, 111, 108, 117, 109, 101>>, (*"zone3volume"*) <<122, 111, 110, 101, 51, 118, 111, 108, 117, 109, 101>> }

VolumeLines == {cmd_line(name, fmt_ld(N)) : name \in VolumeNames, N \in 0..100}

\* the FM frequencies of the band, in tenths of a MHz, and the AM ones in kHz
FMBand == 875..1079

AMBand == 530..1710

fm_arg(t) == fmt_ld(t \div 10) \o <<46>> \o fmt_ld(t % 10)

TuneLines ==
    {cmd_line((*"tune"*) <<116, 117, 110, 101>>, fm_arg(t)) : t \in FMBand}
        \cup {cmd_line((*"tune"*) <<116, 117, 110, 101>>, fmt_ld(K)) : K \in AMBand}

\* FM frequencies on both sides of the band, in tenths of a MHz
FMOutside == {505} \cup (860..874) \cup (1080..1090)

FMOutsideLines == {cmd_line((*"tune"*) <<116, 117, 110, 101>>, fm_arg(t)) : t \in FMOutside}

\* how far beyond both ends of a range the arguments are tried
Margin == 3

\* the commands with an integer argument and their ranges
IntRanges ==
    { [name |-> (*"volume"*) <<118, 111, 108, 117, 109, 101>>,   lo |-> 0,   hi |-> 100],
      [name |-> (*"dbvolume"*) <<100, 98, 118, 111, 108, 117, 109, 101>>, lo |-> -82, hi |-> 18],
      [name |-> (*"preset"*) <<112, 114, 101, 115, 101, 116>>,   lo |-> 0,   hi |-> 40],
      [name |-> (*"sleep"*) <<115, 108, 101, 101, 112>>,    lo |-> 0,   hi |-> 90],
      [name |-> (*"tune"*) <<116, 117, 110, 101>>,     lo |-> 530, hi |-> 1710],
      [name |-> (*"swlevel"*) <<115, 119, 108, 101, 118, 101, 108>>,  lo |-> -15, hi |-> 12] }

IntLines ==
    UNION {{cmd_line(g.name, fmt_ld(n)) : n \in (g.lo - Margin)..(g.hi + Margin)} :
              g \in IntRanges}

\* arguments that begin with a number the command takes and go on with
\* other characters
Numbers ==
    { [name |-> (*"volume"*) <<118, 111, 108, 117, 109, 101>>,     arg |-> (*"42"*) <<52, 50>>],
      [name |-> (*"dbvolume"*) <<100, 98, 118, 111, 108, 117, 109, 101>>,   arg |-> (*"-10"*) <<45, 49, 48>>],
      [name |-> (*"preset"*) <<112, 114, 101, 115, 101, 116>>,     arg |-> (*"12"*) <<49, 50>>],
      [name |-> (*"avsync"*) <<97, 118, 115, 121, 110, 99>>,     arg |-> (*"100"*) <<49, 48, 48>>],
      [name |-> (*"swlevel"*) <<115, 119, 108, 101, 118, 101, 108>>,    arg |-> (*"-5"*) <<45, 53>>],
      [name |-> (*"sleep"*) <<115, 108, 101, 101, 112>>,      arg |-> (*"30"*) <<51, 48>>],
      [name |-> (*"tune"*) <<116, 117, 110, 101>>,       arg |-> (*"600"*) <<54, 48, 48>>],
      [name |-> (*"tune"*) <<116, 117, 110, 101>>,       arg |-> (*"97.9"*) <<57, 55, 46, 57>>],
      [name |-> (*"zone2sleep"*) <<122, 111, 110, 101, 50, 115, 108, 101, 101, 112>>, arg |-> (*"10"*) <<49, 48>>],
      [name |-> (*"zone3sleep"*) <<122, 111, 110, 101, 51, 115, 108, 101, 101, 112>>, arg |-> (*"10"*) <<49, 48>>] }

Trailers == { (*"x"*) <<120>>, (*"abc"*) <<97, 98, 99>> }

TrailingLines == {cmd_line(m.name, m.arg \o t) : m \in Numbers, t \in Trailers}

\* status lines, alone and behind queries whose codes they find pending
StatusLines ==
    { (*"status\n"*) <<115, 116, 97, 116, 117, 115, 10>>, (*"status main\n"*) <<115, 116, 97, 116, 117, 115, 32, 109, 97, 105, 110, 10>>, (*"status zone2\n"*) <<115, 116, 97, 116, 117, 115, 32, 122, 111, 110, 101, 50, 10>>, (*"zone2status\n"*) <<122, 111, 110, 101, 50, 115, 116, 97, 116, 117, 115, 10>>,
      (*"status zone3\n"*) <<115, 116, 97, 116, 117, 115, 32, 122, 111, 110, 101, 51, 10>>, (*"zone3status\n"*) <<122, 111, 110, 101, 51, 115, 116, 97, 116, 117, 115, 10>>,
      (*"status bogus\n"*) <<115, 116, 97, 116, 117, 115, 32, 98, 111, 103, 117, 115, 10>>, (*"status zone4\n"*) <<115, 116, 97, 116, 117, 115, 32, 122, 111, 110, 101, 52, 10>>, (*"status Main\n"*) <<115, 116, 97, 116, 117, 115, 32, 77, 97, 105, 110, 10>>,
      (*"status zone2x\n"*) <<115, 116, 97, 116, 117, 115, 32, 122, 111, 110, 101, 50, 120, 10>>,
      (*"zone2status bogus\n"*) <<122, 111, 110, 101, 50, 115, 116, 97, 116, 117, 115, 32, 98, 111, 103, 117, 115, 10>>, (*"zone2status main\n"*) <<122, 111, 110, 101, 50, 115, 116, 97, 116, 117, 115, 32, 109, 97, 105, 110, 10>>, (*"zone3status zone2\n"*) <<122, 111, 110, 101, 51, 115, 116, 97, 116, 117, 115, 32, 122, 111, 110, 101, 50, 10>>,
      (*"zone3status 1\n"*) <<122, 111, 110, 101, 51, 115, 116, 97, 116, 117, 115, 32, 49, 10>>,
      (*"volume\nstatus\n"*) <<118, 111, 108, 117, 109, 101, 10, 115, 116, 97, 116, 117, 115, 10>>, (*"tune\nvolume\nstatus main\n"*) <<116, 117, 110, 101, 10, 118, 111, 108, 117, 109, 101, 10, 115, 116, 97, 116, 117, 115, 32, 109, 97, 105, 110, 10>>,
      (*"zone2tune\nstatus zone2\n"*) <<122, 111, 110, 101, 50, 116, 117, 110, 101, 10, 115, 116, 97, 116, 117, 115, 32, 122, 111, 110, 101, 50, 10>>, (*"zone3volume\nzone3status\n"*) <<122, 111, 110, 101, 51, 118, 111, 108, 117, 109, 101, 10, 122, 111, 110, 101, 51, 115, 116, 97, 116, 117, 115, 10>>,
      (*"status\nstatus\n"*) <<115, 116, 97, 116, 117, 115, 10, 115, 116, 97, 116, 117, 115, 10>>, (*"status bogus\nzone2status\n"*) <<115, 116, 97, 116, 117, 115, 32, 98, 111, 103, 117, 115, 10, 122, 111, 110, 101, 50, 115, 116, 97, 116, 117, 115, 10>>,
      (*"zone2power\nzone2status\n"*) <<122, 111, 110, 101, 50, 112, 111, 119, 101, 114, 10, 122, 111, 110, 101, 50, 115, 116, 97, 116, 117, 115, 10>>, (*"tune\nstatus zone3\n"*) <<116, 117, 110, 101, 10, 115, 116, 97, 116, 117, 115, 32, 122, 111, 110, 101, 51, 10>> }

\* the chunks the client writes
CmdLines ==
    VolumeLines \cup TuneLines \cup FMOutsideLines \cup IntLines
        \cup TrailingLines \cup StatusLines

\* the receiver after the initial power query is written, and what was written
power_asked ==
    rcvr_send_command(process_command(new_receiver, (*"power"*) <<112, 111, 119, 101, 114>>, start_time).rcvr,
                      start_time, "full")

CmdInit ==
    \E bytes \in CmdLines :
        LET begun(asked_r, heard, conn) ==
                /\ rcvr = heard.rcvr
                /\ serial_out = <<[bytes |-> asked_r.wrote.bytes,
                                   seq |-> asked_r.wrote.seq,
                                   at |-> start_time, power |-> POWER_OFF]>>
                /\ connections = conn.connections
                /\ peer = [conn.peer EXCEPT ![1].tx = bytes]
            heard(asked_r) ==
                begun(asked_r,
                      process_incoming_message(asked_r.rcvr, (*"!1PWR01\z"*) <<33, 49, 80, 87, 82, 48, 49, 26>>),
                      open_connection(
                          [connections |-> [i \in Slots |-> free_conn],
                           peer |-> [c \in Clients |->
                                        [st |-> "idle", closed |-> FALSE,
                                         tx |-> <<>>, rx |-> <<>>]]],
                          1, TRUE).w)
        IN  /\ heard(power_asked)
            /\ now = start_time
            /\ pc = "select"
            /\ sel = [writefds |-> FALSE, timeout |-> NoTimeout,
                      entered |-> timeval_zero, ready |-> nothing_ready]
            /\ signalpipe = <<>>
            /\ serial_in = <<>>
            /\ backlog = <<>>
            /\ count = [sends |-> 1, replies |-> 1, signals |-> 0, faults |-> 0]
            /\ io = [c \in Clients |->
                        [sent |-> IF c = 1 THEN bytes ELSE <<>>, handed |-> <<>>]]
            /\ proc = running

\* the setting a command written to the serial line carries: the bytes
\* between the start characters and the end characters
code_of(bytes) ==
    SubSeq(bytes, Len(START_SEND) + 1, Len(bytes) - Len(END_SEND))

\* the receiver reports the setting of the first command it was sent after
\* the power query, when that command set something
CmdEcho ==
    /\ pc = "select"
    /\ Len(serial_out) >= 2
    /\ ~strstr(serial_out[2].bytes, (*"QSTN"*) <<81, 83, 84, 78>>)
    /\ count.replies = 1
    /\ serial_in' = Append(serial_in,
                           [seq |-> 2,
                            bytes |-> START_RECV \o code_of(serial_out[2].bytes)
                                         \o END_RECV])
    /\ count' = [count EXCEPT !.replies = 2]
    /\ UNCHANGED <<now, rcvr, connections, pc, sel, signalpipe, serial_out,
                   backlog, peer, io, proc>>

CmdNext ==
    \/ LoopTop
    \/ SelectReturn
    \/ SerialRead
    \/ SerialWrite /\ count' = count
    \/ Input
    \/ \E d \in Deltas : Elapse(d)
    \/ CmdEcho

CmdSpec == CmdInit /\ [][CmdNext]_vars

(***************************************************************************)
(* The daemon under a wall clock that is set back.  gettimeofday() gives   *)
(* the time of day, which an administrator or a time daemon may set back   *)
(* between two passes of the loop; select() counts its timeout on its own. *)
(***************************************************************************)
\* how far the clock is set back, in microseconds
ClockJumps == {40000, 500000}

ClockInputs == { (*"volume 5\n"*) <<118, 111, 108, 117, 109, 101, 32, 53, 10>>, (*"power on\n"*) <<112, 111, 119, 101, 114, 32, 111, 110, 10>> }

\* the clock is set back before the loop reads it
ClockBack(j) ==
    /\ pc = "top"
    /\ rcvr.cmds_sent >= 1
    /\ usec_of(now) >= usec_of(rcvr.last_cmd)
    /\ usec_of(now) >= j
    /\ now' = timeval_of(usec_of(now) - j)
    /\ UNCHANGED <<rcvr, connections, pc, sel, signalpipe, serial_in, serial_out,
                   backlog, peer, count, io, proc>>

ClockNext ==
    \/ LoopTop
    \/ SelectReturn
    \/ SerialWrite /\ count' = count
    \/ Accept
    \/ Input
    \/ \E d \in Deltas : Elapse(d)
    \/ \E j \in ClockJumps : ClockBack(j)
    \/ \E c \in Clients : ClientConnect(c)
    \/ \E c \in Clients, bytes \in ClockInputs : ClientSend(c, bytes)

ClockSpec == Init /\ [][ClockNext]_vars

(***************************************************************************)
(* The daemon with the sleep timers and a clock that select() hands back   *)
(* at the very end of its timeout, so that the loop can find the pacing    *)
(* wait over to the microsecond.                                           *)
(***************************************************************************)
WakeInputs == { (*"zone2sleep 2\n"*) <<122, 111, 110, 101, 50, 115, 108, 101, 101, 112, 32, 50, 10>>, (*"power on\n"*) <<112, 111, 119, 101, 114, 32, 111, 110, 10>> }

WakeNext ==
    \/ SleepLoopTop
    \/ SelectReturn
    \/ SerialWrite /\ count' = count
    \/ SleepUpdate
    \/ Accept
    \/ Input
    \/ \E d \in Deltas : Elapse(d)
    \/ \E d \in SleepDeltas : SleepElapse(d)
    \/ \E c \in Clients : ClientConnect(c)
    \/ \E c \in Clients, bytes \in WakeInputs : ClientSend(c, bytes)

WakeSpec == Init /\ [][WakeNext]_vars

(***************************************************************************)
(* The daemon with a receiver that reports the power of its three zones    *)
(* and other statuses, while clients set the sleep timers of zones 2 and   *)
(* 3.  The loop is the one with the sleep timers; the serial line takes    *)
(* every write whole.                                                      *)
(***************************************************************************)
\* the power statuses of the three zones
PowerReplies ==
    { (*"!1PWR00\z"*) <<33, 49, 80, 87, 82, 48, 48, 26>>, (*"!1PWR01\z"*) <<33, 49, 80, 87, 82, 48, 49, 26>>, (*"!1ZPW00\z"*) <<33, 49, 90, 80, 87, 48, 48, 26>>, (*"!1ZPW01\z"*) <<33, 49, 90, 80, 87, 48, 49, 26>>,
      (*"!1PW300\z"*) <<33, 49, 80, 87, 51, 48, 48, 26>>, (*"!1PW301\z"*) <<33, 49, 80, 87, 51, 48, 49, 26>> }

\* a volume that is not a number, which the static table knows, a volume,
\* and a status that no table and no family knows
OtherReplies ==
    { (*"!1ZVLN/A\z"*) <<33, 49, 90, 86, 76, 78, 47, 65, 26>>, (*"!1MVL28\z"*) <<33, 49, 77, 86, 76, 50, 56, 26>>, (*"!1XYZ12\z"*) <<33, 49, 88, 89, 90, 49, 50, 26>> }

ReplyInputs == { (*"zone2sleep 2\n"*) <<122, 111, 110, 101, 50, 115, 108, 101, 101, 112, 32, 50, 10>>, (*"zone3sleep 1\n"*) <<122, 111, 110, 101, 51, 115, 108, 101, 101, 112, 32, 49, 10>> }

ReplyNext ==
    \/ SleepLoopTop
    \/ SelectReturn
    \/ SerialRead
    \/ SerialWrite /\ count' = count
    \/ SleepUpdate
    \/ Accept
    \/ Input
    \/ \E d \in SleepDeltas : SleepElapse(d)
    \/ \E bytes \in PowerReplies \cup OtherReplies : ReceiverSends(bytes)
    \/ \E c \in Clients : ClientConnect(c)
    \/ \E c \in Clients, bytes \in ReplyInputs : ClientSend(c, bytes)

ReplySpec == Init /\ [][ReplyNext]_vars

(***************************************************************************)
(* The daemon under fairness: main() keeps running, so each step of its    *)
(* loop that can be taken is taken in the end; the serial line takes every *)
(* write whole; and the clock moves on while a command waits for the       *)
(* pacing interval, also between two passes of a loop whose select()       *)
(* returns at once.  The clients and the receiver act as they like.        *)
(***************************************************************************)
LiveInputs == { (*"power on\n"*) <<112, 111, 119, 101, 114, 32, 111, 110, 10>>, (*"volume 40\n"*) <<118, 111, 108, 117, 109, 101, 32, 52, 48, 10>> }

LiveMessages == { (*"!1PWR01\z"*) <<33, 49, 80, 87, 82, 48, 49, 26>>, (*"!1PWR00\z"*) <<33, 49, 80, 87, 82, 48, 48, 26>> }

\* time passes while a command waits for the pacing interval
LiveElapse(d) ==
    /\ pc = "select"
    /\ read_ready = nothing_ready
    /\ rcvr.queue # <<>>
    /\ ~sel.writefds
    /\ ~can_send_command(rcvr.last_cmd, now).ok
    /\ ~timed_out \/ sel.timeout = timeval_zero
    /\ now' = timeval_of(usec_of(now) + d)
    /\ UNCHANGED <<rcvr, connections, pc, sel, signalpipe, serial_in, serial_out,
                   backlog, peer, count, io, proc>>

LiveWrite == SerialWrite /\ count' = count

LiveTime == \E d \in Deltas : LiveElapse(d)

LiveNext ==
    \/ LoopTop
    \/ SelectReturn
    \/ SerialRead
    \/ LiveWrite
    \/ Accept
    \/ Input
    \/ LiveTime
    \/ \E bytes \in LiveMessages : ReceiverSends(bytes)
    \/ \E c \in Clients : ClientConnect(c)
    \/ \E c \in Clients, bytes \in LiveInputs : ClientSend(c, bytes)

\* the steps of main() that neither read nor parse: one at a time, in the
\* order of the loop
LiveDaemon == LoopTop \/ SelectReturn \/ LiveWrite \/ Accept

\* main() keeps running: a step of the loop that can be taken is taken.  For
\* the two steps that read, SerialRead and Input, this is said by its
\* meaning: each is enabled exactly while the loop is at it and ends the
\* wait at it, so the loop is not at the step for ever.
LiveSpec ==
    /\ Init /\ [][LiveNext]_vars
    /\ WF_vars(LiveDaemon)
    /\ []<>(pc # "serial_read")
    /\ []<>(pc # "input")
    /\ SF_vars(LiveTime)

(***************************************************************************)
(* The daemon with clients that ask for the same volume again and again,   *)
(* by its number and in dB, one line or three lines in a write, while the  *)
(* receiver reports its power.  The serial line takes every write whole.   *)
(***************************************************************************)
CoalesceInputs ==
    { (*"volume 40\n"*) <<118, 111, 108, 117, 109, 101, 32, 52, 48, 10>>, (*"dbvolume -42\n"*) <<100, 98, 118, 111, 108, 117, 109, 101, 32, 45, 52, 50, 10>>,
      (*"volume 40\ndbvolume -42\nvolume 40\n"*) <<118, 111, 108, 117, 109, 101, 32, 52, 48, 10, 100, 98, 118, 111, 108, 117, 109, 101, 32, 45, 52, 50, 10, 118, 111, 108, 117, 109, 101, 32, 52, 48, 10>> }

CoalesceNext ==
    \/ LoopTop
    \/ SelectReturn
    \/ SerialRead
    \/ SerialWrite /\ count' = count
    \/ Accept
    \/ Input
    \/ \E d \in Deltas : Elapse(d)
    \/ ReceiverSends((*"!1PWR01\z"*) <<33, 49, 80, 87, 82, 48, 49, 26>>)
    \/ \E c \in Clients : ClientConnect(c)
    \/ \E c \in Clients, bytes \in CoalesceInputs : ClientSend(c, bytes)

CoalesceSpec == Init /\ [][CoalesceNext]_vars

(***************************************************************************)
(* Properties.                                                             *)
(***************************************************************************)
live_slots(conns) == {i \in Slots : live(conns, i)}

\* the lines of a message as the clients receive them
tagged(lines, cause) == [k \in 1..Len(lines) |-> rx_line(lines[k], cause, k)]

\* positions of the queue up to and including the first power command
\* (all of them when there is none)
gate_prefix(q) ==
    IF \E i \in DOMAIN q : is_power_command(q[i].cmd)
    THEN CHOOSE i \in DOMAIN q :
             is_power_command(q[i].cmd) /\ \A j \in 1..(i - 1) : ~is_power_command(q[j].cmd)
    ELSE Len(q)

\* C1: any two successive writes to the serial line are at least
\* COMMAND_WAIT milliseconds apart, from the time recorded at the first
\* (last_cmd) to the time of the second
C1_Pacing ==
    \A i \in 2..Len(serial_out) :
        usec_of(serial_out[i].at) - usec_of(serial_out[i - 1].at) >= 1000 * COMMAND_WAIT

\* two commands were written to the receiver
C1_Witness ==
    /\ Len(serial_out) >= 2
    /\ usec_of(serial_out[2].at) - usec_of(serial_out[1].at) >= 1000 * COMMAND_WAIT

C2_Step ==
    (pc = "serial_write" /\ rcvr.power = POWER_OFF) =>
        LET q == rcvr.queue
            k == gate_prefix(q)
        IN  /\ rcvr'.queue = SubSeq(q, k + 1, Len(q))
            /\ \/ serial_out' = serial_out
               \/ /\ is_power_command(q[k].cmd)
                  /\ Len(serial_out') = Len(serial_out) + 1
                  /\ SubSeq(serial_out', 1, Len(serial_out)) = serial_out
                  /\ serial_out'[Len(serial_out')].seq = q[k].seq
                  /\ is_power_command(serial_out'[Len(serial_out')].bytes)

\* C2: while the power bitmask is zero, a code that is written to the
\* serial line contains PWR, ZPW or PW3, and the codes that came to the
\* head of the queue before it are removed without being written
C2_PowerGate == [][C2_Step]_vars

\* with the power off, a code that is no power command was dropped and the
\* power on that was queued behind it was written
C2_Witness ==
    /\ count.faults = 0
    /\ \E i \in DOMAIN serial_out :
          /\ serial_out[i].power = POWER_OFF
          /\ serial_out[i].bytes = (*"!1PWR01\r\n"*) <<33, 49, 80, 87, 82, 48, 49, 13, 10>>
          /\ \E s \in 1..(serial_out[i].seq - 1) :
                \A j \in DOMAIN serial_out : serial_out[j].seq # s

\* C3: no two entries of the queue have the same hash, and queueing a code
\* whose hash is in the queue leaves the queue as it is and returns 0
C3_QueueUnique ==
    /\ \A i, j \in DOMAIN rcvr.queue :
          i # j => rcvr.queue[i].hash # rcvr.queue[j].hash
    /\ \A i \in DOMAIN rcvr.queue :
          cmd_attempt(rcvr, rcvr.queue[i].cmd, <<>>) = Result(rcvr, 0)

\* two valid lines were processed and only one of them added to the queue
C3_Witness ==
    /\ pc # "exit"
    /\ count.sends = 2
    /\ \A c \in Clients :
          /\ peer[c].tx = <<>>
          /\ ~peer[c].closed
          /\ \A i \in DOMAIN peer[c].rx : peer[c].rx[i].line # invalid_cmd
    /\ rcvr.queued = 2

\* C4: the codes are written in the order they were appended to the queue
C4_Fifo ==
    \A i, j \in DOMAIN serial_out :
        i < j => serial_out[i].seq < serial_out[j].seq

\* three codes were appended, the second was dropped by the power gate and
\* the third was written after the first
C4_Witness ==
    /\ count.faults = 0
    /\ Len(serial_out) = 2
    /\ serial_out[1].seq = 1
    /\ serial_out[2].seq = 3

ok_power_on == (*"OK:power:on\n"*) <<79, 75, 58, 112, 111, 119, 101, 114, 58, 111, 110, 10>>

C5_Step ==
    /\ (/\ pc = "input"
        /\ connections[input_slot].recv_buf_pos = 0
        /\ peer[connections[input_slot].fd].tx = (*"power on\n"*) <<112, 111, 119, 101, 114, 32, 111, 110, 10>>)
          => \E i \in DOMAIN rcvr'.queue : rcvr'.queue[i].cmd = (*"PWR01"*) <<80, 87, 82, 48, 49>>
    /\ (/\ pc = "serial_write"
        /\ Head(rcvr.queue).cmd = (*"PWR01"*) <<80, 87, 82, 48, 49>>
        /\ count'.faults = count.faults)
          => serial_out' = Append(serial_out,
                                  [bytes |-> (*"!1PWR01\r\n"*) <<33, 49, 80, 87, 82, 48, 49, 13, 10>>,
                                   seq |-> Head(rcvr.queue).seq,
                                   at |-> now, power |-> rcvr.power])
    /\ (/\ pc = "serial_read"
        /\ Head(serial_in).bytes = (*"!1PWR01\z"*) <<33, 49, 80, 87, 82, 48, 49, 26>>)
          => /\ (rcvr'.power \div MAIN_POWER) % 2 = 1
             /\ \A i \in live_slots(connections') :
                   peer'[connections'[i].fd].rx =
                       Append(peer[connections'[i].fd].rx,
                              rx_line(ok_power_on, Head(serial_in).seq, 1))

\* C5: a client's "power on" queues PWR01; PWR01 at the head of the queue
\* is written as "!1PWR01\r\n" whatever the power bitmask; the receiver's
\* "!1PWR01" gives every connected client "OK:power:on\n" and sets the main
\* bit of the bitmask
C5_PowerOn == [][C5_Step]_vars

\* the whole exchange took place, starting with the power off
C5_Witness ==
    /\ \E i \in DOMAIN serial_out :
          serial_out[i].bytes = (*"!1PWR01\r\n"*) <<33, 49, 80, 87, 82, 48, 49, 13, 10>> /\ serial_out[i].power = POWER_OFF
    /\ (rcvr.power \div MAIN_POWER) % 2 = 1
    /\ \E c \in Clients :
          /\ peer[c].st = "open"
          /\ \E i \in DOMAIN peer[c].rx :
                peer[c].rx[i].line = ok_power_on /\ peer[c].rx[i].cause > 0

C6_Step ==
    /\ (pc' = "serial_write" /\ sel'.ready.serial_rd)
          => /\ pc = "serial_read"
             /\ serial_in' = Tail(serial_in)
    /\ pc = "serial_read"
          => /\ serial_out' = serial_out
             /\ rcvr'.queue = rcvr.queue
             /\ \A i \in live_slots(connections') :
                   Len(peer'[connections'[i].fd].rx) > Len(peer[connections'[i].fd].rx)

\* C6: in an iteration that finds the serial line readable, the message is
\* read, parsed and broadcast before a command is taken from the queue
C6_ReplyBeforeSend == [][C6_Step]_vars

\* the receiver's first message turned the power on in the iteration that
\* now comes to write a command that is no power command
C6_Witness ==
    /\ pc = "serial_write"
    /\ sel.ready.serial_rd
    /\ rcvr.msgs_received = 1
    /\ rcvr.power = MAIN_POWER
    /\ ~is_power_command(Head(rcvr.queue).cmd)
    /\ \E c \in Clients : peer[c].st = "open" /\ Len(peer[c].rx) >= 2

\* C7: every client receives the lines caused by the receiver's messages
\* in the order the messages were parsed, so no two clients see two of
\* them in different orders
C7_BroadcastOrder ==
    \A c \in Clients :
        \A i, j \in DOMAIN peer[c].rx :
            (i < j /\ peer[c].rx[i].cause > 0 /\ peer[c].rx[j].cause > 0)
              => \/ peer[c].rx[i].cause < peer[c].rx[j].cause
                 \/ /\ peer[c].rx[i].cause = peer[c].rx[j].cause
                    /\ peer[c].rx[i].k < peer[c].rx[j].k

\* two clients have both received the lines of two messages
C7_Witness ==
    \E a, b \in Clients : a # b /\ \A c \in {a, b} :
        /\ peer[c].st = "open"
        /\ \E i, j \in DOMAIN peer[c].rx :
              peer[c].rx[i].cause = 1 /\ peer[c].rx[j].cause = 2

\* volume messages of the three zones and the two lines of each
VolumeReplies ==
    { [msg |-> (*"!1MVL28\z"*) <<33, 49, 77, 86, 76, 50, 56, 26>>, volume |-> (*"OK:volume:40\n"*) <<79, 75, 58, 118, 111, 108, 117, 109, 101, 58, 52, 48, 10>>,
       dbvolume |-> (*"OK:dbvolume:-42\n"*) <<79, 75, 58, 100, 98, 118, 111, 108, 117, 109, 101, 58, 45, 52, 50, 10>>],
      [msg |-> (*"!1ZVL00\z"*) <<33, 49, 90, 86, 76, 48, 48, 26>>, volume |-> (*"OK:zone2volume:0\n"*) <<79, 75, 58, 122, 111, 110, 101, 50, 118, 111, 108, 117, 109, 101, 58, 48, 10>>,
       dbvolume |-> (*"OK:zone2dbvolume:-82\n"*) <<79, 75, 58, 122, 111, 110, 101, 50, 100, 98, 118, 111, 108, 117, 109, 101, 58, 45, 56, 50, 10>>],
      [msg |-> (*"!1VL364\z"*) <<33, 49, 86, 76, 51, 54, 52, 26>>, volume |-> (*"OK:zone3volume:100\n"*) <<79, 75, 58, 122, 111, 110, 101, 51, 118, 111, 108, 117, 109, 101, 58, 49, 48, 48, 10>>,
       dbvolume |-> (*"OK:zone3dbvolume:18\n"*) <<79, 75, 58, 122, 111, 110, 101, 51, 100, 98, 118, 111, 108, 117, 109, 101, 58, 49, 56, 10>>] }

\* what a client that stays connected receives in a step that reads msg
received(v, first, second) ==
    (pc = "serial_read" /\ Head(serial_in).bytes = v.msg)
      => \A i \in live_slots(connections') :
            peer'[connections'[i].fd].rx =
                peer[connections'[i].fd].rx
                  \o tagged(<<first, second>>, Head(serial_in).seq)

\* the parser's lines for the volume messages
volume_out ==
    {<<v.msg, process_incoming_message(new_receiver, v.msg).out>> : v \in VolumeReplies}

dbvolume_first == {<<v.msg, <<v.dbvolume, v.volume>> >> : v \in VolumeReplies}

volume_first == {<<v.msg, <<v.volume, v.dbvolume>> >> : v \in VolumeReplies}

C8_Step ==
    /\ (pc = "top" /\ serial_out = <<>>) => volume_out = dbvolume_first
    /\ \A v \in VolumeReplies : received(v, v.dbvolume, v.volume)

\* C8: a volume message of the receiver gives every client two lines,
\* first OK:<zone>dbvolume:V-82 and then OK:<zone>volume:V; for "!1MVL28"
\* they are "OK:dbvolume:-42\n" and then "OK:volume:40\n"
C8_VolumeReply == [][C8_Step]_vars

C8_StepVolumeFirst ==
    /\ (pc = "top" /\ serial_out = <<>>) => volume_out = volume_first
    /\ \A v \in VolumeReplies : received(v, v.volume, v.dbvolume)

\* C8 as stated: first OK:<zone>volume:V and then OK:<zone>dbvolume:V-82
C8_VolumeFirst == [][C8_StepVolumeFirst]_vars

\* two clients have both received the two lines of "!1MVL28"
C8_Witness ==
    \E a, b \in Clients : a # b /\ \A c \in {a, b} :
        /\ peer[c].st = "open"
        /\ Len(peer[c].rx) >= 2
        /\ peer[c].rx[Len(peer[c].rx) - 1].line = (*"OK:dbvolume:-42\n"*) <<79, 75, 58, 100, 98, 118, 111, 108, 117, 109, 101, 58, 45, 52, 50, 10>>
        /\ peer[c].rx[Len(peer[c].rx)].line = (*"OK:volume:40\n"*) <<79, 75, 58, 118, 111, 108, 117, 109, 101, 58, 52, 48, 10>>

C9_Step ==
    pc = "serial_read" =>
        LET msg   == Head(serial_in)
            lines == tagged(process_incoming_message(rcvr, msg.bytes).out, msg.seq)
        IN  /\ lines # <<>>
            /\ \A i \in live_slots(connections) :
                  LET fd == connections[i].fd
                  IN  \/ /\ connections'[i] = connections[i]
                         /\ peer'[fd].st = "open"
                         /\ peer'[fd].rx = peer[fd].rx \o lines
                      \/ /\ peer[fd].closed
                         /\ connections'[i] = free_conn
                         /\ peer'[fd].st = "ended"
                         /\ peer'[fd].rx = peer[fd].rx

\* C9: a broadcast writes the whole line to every connection that is open,
\* whether or not its client ever sent a command; a connection whose write
\* fails is ended, and every other one receives the line and stays open
C9_FanOut == [][C9_Step]_vars

\* no client has sent anything; a broadcast has failed on one connection,
\* which is ended before its end of file was read, and has reached another
C9_Witness ==
    /\ pc # "exit"
    /\ count.sends = 0
    /\ \E c, d \in Clients :
          /\ peer[c].st = "ended"
          /\ c \in sel.ready.conns
          /\ peer[d].st = "open"
          /\ peer[d].rx # <<>>
          /\ peer[d].rx[Len(peer[d].rx)].cause > 0

\* lines that are no command, or a command with a bad argument or value
InvalidLines ==
    { (*"bogus\n"*) <<98, 111, 103, 117, 115, 10>>, (*"volume 101\n"*) <<118, 111, 108, 117, 109, 101, 32, 49, 48, 49, 10>> }

\* what the translator returns for them and for some more
invalid_ret ==
    {process_command(new_receiver, str, start_time) : str \in
        InvalidLines \cup { (*"power maybe"*) <<112, 111, 119, 101, 114, 32, 109, 97, 121, 98, 101>>, (*"dbvolume 19"*) <<100, 98, 118, 111, 108, 117, 109, 101, 32, 49, 57>>, (*"volume 4x"*) <<118, 111, 108, 117, 109, 101, 32, 52, 120>> }}

C10_Step ==
    /\ (pc = "top" /\ serial_out = <<>>) => invalid_ret = {Result(new_receiver, -1)}
    /\ (/\ pc = "input"
        /\ connections[input_slot].recv_buf_pos = 0
        /\ peer[connections[input_slot].fd].tx \in InvalidLines
        /\ ~peer[connections[input_slot].fd].closed)
          => LET fd == connections[input_slot].fd
             IN  /\ peer'[fd].rx = Append(peer[fd].rx, rx_line(invalid_cmd, 0, 0))
                 /\ peer'[fd].st = "open"
                 /\ connections'[input_slot].fd = fd
                 /\ \A d \in Clients \ {fd} : peer'[d] = peer[d]
                 /\ pc' \in {"input", "top"}

\* C10: a line that is no command, or has a bad argument or a value out
\* of range, gives "ERROR:Invalid Command\n" to the connection it came
\* from and nothing to any other, and the daemon goes on
C10_InvalidCommand == [][C10_Step]_vars

\* a client has received the error line for its own line while another,
\* connected before it, has received nothing but the greeting
C10_Witness ==
    /\ pc # "exit"
    /\ \E c, d \in Clients :
          /\ c # d
          /\ peer[c].st = "open" /\ peer[d].st = "open"
          /\ peer[c].rx = <<rx_line(startup_msg, 0, 0), rx_line(invalid_cmd, 0, 0)>>
          /\ peer[d].rx = <<rx_line(startup_msg, 0, 0)>>


\* how often a line is among the lines a client has received
occurrences(rx, line) == Cardinality({i \in DOMAIN rx : rx[i].line = line})

C11_Inv ==
    \A c \in Clients :
        /\ occurrences(peer[c].rx, startup_msg) <= 1
        /\ occurrences(peer[c].rx, max_conns) <= 1
        /\ peer[c].rx # <<>> => peer[c].rx[1].line = startup_msg
        /\ peer[c].st = "open" => peer[c].rx # <<>>
        /\ peer[c].st \in {"idle", "queued"} => peer[c].rx = <<>>

C11_Step ==
    pc = "accept" =>
        LET c == Head(backlog)
        IN  \/ /\ peer'[c].st = "open"
               /\ peer'[c].rx = <<rx_line(startup_msg, 0, 0)>>
            \/ /\ peer'[c].st = "ended"
               /\ peer'[c].rx = <<rx_line(startup_msg, 0, 0), rx_line(max_conns, 0, 0)>>
            \/ /\ peer[c].closed
               /\ peer'[c].st = "ended"
               /\ peer'[c].rx = <<>>

\* C11: the accept of a client writes it the greeting and nothing before
\* it (a client that has closed already may get nothing); a client never
\* receives the greeting twice nor the refusal twice, and whatever it has
\* received begins with the greeting
C11_Greeting == []C11_Inv /\ [][C11_Step]_vars

\* two clients are connected and greeted, one of them has received a
\* broadcast after the greeting, and a third was greeted and refused
C11_Witness ==
    /\ \E c \in Clients :
          /\ peer[c].st = "open"
          /\ Len(peer[c].rx) >= 2
          /\ peer[c].rx[1].line = startup_msg
    /\ \E d \in Clients :
          /\ peer[d].st = "ended"
          /\ peer[d].rx = <<rx_line(startup_msg, 0, 0), rx_line(max_conns, 0, 0)>>


\* the clients that hold a connection, as they see it
open_clients == {c \in Clients : peer[c].st = "open"}

\* the first free slot of the pool (0 when there is none)
first_free(conns) ==
    IF \A i \in Slots : live(conns, i) THEN 0
    ELSE CHOOSE i \in Slots : ~live(conns, i) /\ \A j \in 1..(i - 1) : live(conns, j)

C12_Inv ==
    /\ Cardinality(open_clients) <= MAX_CONNECTIONS
    /\ \A c \in Clients :
          c \in open_clients <=> \E i \in Slots : connections[i].fd = c
    /\ \A i, j \in Slots :
          (i # j /\ live(connections, i)) => connections[i].fd # connections[j].fd

C12_Step ==
    pc = "accept" =>
        LET c == Head(backlog)
            k == first_free(connections)
        IN  /\ k = 0 =>
                  /\ connections' = connections
                  /\ peer'[c].st = "ended"
                  /\ ~peer[c].closed =>
                        peer'[c].rx[Len(peer'[c].rx)] = rx_line(max_conns, 0, 0)
            /\ (k # 0 /\ ~peer[c].closed) =>
                  /\ peer'[c].st = "open"
                  /\ connections'[k].fd = c
                  /\ \A i \in Slots \ {k} : connections'[i] = connections[i]

\* C12: the clients that hold a connection are never more than
\* MAX_CONNECTIONS and are those enrolled in the pool; a client accepted
\* while the pool is full is sent the refusal, closed and not enrolled; a
\* client accepted otherwise takes the first free slot, whether or not the
\* slot was used before
C12_Capacity == []C12_Inv /\ [][C12_Step]_vars

\* the pool is full and a third client has been refused
C12_Witness ==
    /\ Cardinality(open_clients) = MAX_CONNECTIONS
    /\ \A i \in Slots : live(connections, i)
    /\ \E c \in Clients \ open_clients :
          /\ peer[c].st = "ended"
          /\ peer[c].rx[Len(peer[c].rx)] = rx_line(max_conns, 0, 0)

\* the slot of a connection that was closed is held by a later client
C12_Reuse ==
    \E c \in Clients, d \in open_clients :
        /\ c < d
        /\ peer[c].st = "ended"
        /\ peer[c].rx # <<>>
        /\ connections[1].fd = d


\* the places of the newlines in a stream of bytes
newlines(bytes) == {j \in 1..Len(bytes) : bytes[j] = 10}

\* where the line begins that the byte at place p belongs to
line_start(bytes, p) ==
    LET before == {j \in newlines(bytes) : j < p}
    IN  IF before = {} THEN 1
        ELSE 1 + CHOOSE j \in before : \A k \in before : k <= j

\* the lines of a stream: the strings its newlines end, without the newline
stream_lines(bytes) ==
    LET nl == newlines(bytes)
        kth(k) == CHOOSE p \in nl : Cardinality({q \in nl : q < p}) = k - 1
    IN  <<>> \o [k \in 1..Cardinality(nl) |->
                    SubSeq(bytes, line_start(bytes, kth(k)), kth(k) - 1)]

\* what follows the last newline of a stream
stream_rest(bytes) == SubSeq(bytes, line_start(bytes, Len(bytes) + 1), Len(bytes))

\* the bytes of client c the daemon has read
consumed(c) == SubSeq(io[c].sent, 1, Len(io[c].sent) - Len(peer[c].tx))

is_prefix(a, b) == Len(a) <= Len(b) /\ SubSeq(b, 1, Len(a)) = a

\* a line the buffer of a connection has room for
fits(line) == Len(line) <= BUF_SIZE - 1

\* the slots that hold the connection of client c
slots_of(c) == {i \in Slots : connections[i].fd = c}

\* the strings passed to process_command() for client c in this step
handed_now(c) ==
    SubSeq(io[c].handed', Len(io[c].handed) + 1, Len(io[c].handed'))

\* C13: a line of more than 63 bytes before its newline is discarded, the
\* bytes of it that arrive after the buffer was reset included: the strings
\* passed to process_command() for a connection are the lines of at most 63
\* bytes of what was read from it, whole, and nothing else
C13_Overlong ==
    \A c \in Clients :
        LET whole == SelectSeq(stream_lines(consumed(c)), fits)
        IN  /\ is_prefix(io[c].handed, whole)
            /\ slots_of(c) # {} => io[c].handed = whole

\* a line of 73 bytes, 64 of them before "power on": the buffer was reset
\* after the 64th, the rest was passed on as the line "power on" and the
\* command PWR01 was put in the queue
C13_TailPassed ==
    \E c \in Clients :
        /\ io[c].sent = overlong \o (*"power on\n"*) <<112, 111, 119, 101, 114, 32, 111, 110, 10>>
        /\ io[c].handed = <<(*"power on"*) <<112, 111, 119, 101, 114, 32, 111, 110>>>>
        /\ \E i \in 1..Len(rcvr.queue) : rcvr.queue[i].cmd = (*"PWR01"*) <<80, 87, 82, 48, 49>>

\* C14: while no line of a connection is longer than 63 bytes, the strings
\* passed to process_command() are the lines of the bytes read, in order,
\* each once and without its newline, however the bytes were split over the
\* reads; what follows the last newline waits in recv_buf
C14_Framing ==
    \A c \in Clients :
        LET lines == stream_lines(consumed(c))
            rest  == stream_rest(consumed(c))
        IN  (fits(rest) /\ \A k \in 1..Len(lines) : fits(lines[k]))
               => /\ is_prefix(io[c].handed, lines)
                  /\ \A i \in slots_of(c) :
                        /\ io[c].handed = lines
                        /\ connections[i].recv_buf_pos = Len(rest)
                        /\ SubSeq(connections[i].recv_buf, 1, Len(rest)) = rest

\* two lines came in one read and were passed on in their order, and the
\* two commands are in the queue in that order
C14_Witness ==
    \E c \in Clients :
        /\ io[c].sent = (*"volume 42\nvolume 43\n"*) <<118, 111, 108, 117, 109, 101, 32, 52, 50, 10, 118, 111, 108, 117, 109, 101, 32, 52, 51, 10>>
        /\ io[c].handed = <<(*"volume 42"*) <<118, 111, 108, 117, 109, 101, 32, 52, 50>>, (*"volume 43"*) <<118, 111, 108, 117, 109, 101, 32, 52, 51>>>>
        /\ \E i, j \in 1..Len(rcvr.queue) :
              /\ i < j
              /\ rcvr.queue[i].cmd = (*"MVL2A"*) <<77, 86, 76, 50, 65>>
              /\ rcvr.queue[j].cmd = (*"MVL2B"*) <<77, 86, 76, 50, 66>>

\* the first part of a line was read and waits in recv_buf for the rest
C14_Split ==
    \E c \in Clients, i \in Slots :
        /\ connections[i].fd = c
        /\ connections[i].recv_buf_pos = 4
        /\ io[c].handed = <<>>
        /\ peer[c].tx = (*"me 42\n"*) <<109, 101, 32, 52, 50, 10>>

\* the line "zone<N>sleep" with its argument, if it has one
sleep_line(zone, arg) ==
    (*"zone"*) <<122, 111, 110, 101>> \o <<zone>> \o (*"sleep"*) <<115, 108, 101, 101, 112>> \o (IF arg = NULL THEN <<>> ELSE <<32>> \o arg)

\* the line that tells the clients the minutes left
sleep_ok(zone, mins) ==
    (*"OK:zone"*) <<79, 75, 58, 122, 111, 110, 101>> \o <<zone>> \o (*"sleep:"*) <<115, 108, 101, 101, 112, 58>> \o fmt_ld(mins) \o <<10>>

\* the receiver with the deadline of a zone at a time
with_sleep(r, zone, at) ==
    IF zone = 50 THEN [r EXCEPT !.zone2_sleep = at] ELSE [r EXCEPT !.zone3_sleep = at]

\* the clients that hold a connection, in the next state
connected_next == {connections'[i].fd : i \in {j \in Slots : live(connections', j)}}

\* every client connected after the step has received these lines in it
broadcast_now(lines) ==
    \A d \in connected_next :
        peer'[d].rx = peer[d].rx \o [k \in 1..Len(lines) |-> rx_line(lines[k], 0, k - 1)]

SleepMinutes == {0, 1, 2, 5, 90, 120}

C15_Step ==
    /\ (pc = "top" /\ serial_out = <<>>) =>
          \A zone \in {50, 51}, M \in SleepMinutes :
              process_command(rcvr, sleep_line(zone, fmt_ld(M)), now)
                 = [rcvr |-> with_sleep(rcvr, zone,
                                        timeval(now.tv_sec + 60 * M, now.tv_usec)),
                    ret |-> 0,
                    out |-> <<sleep_ok(zone, M)>>]
    /\ \A c \in Clients, zone \in {50, 51}, M \in SleepMinutes :
          handed_now(c) = <<sleep_line(zone, fmt_ld(M))>>
             => /\ zone_sleep(rcvr', zone) = timeval(now.tv_sec + 60 * M, now.tv_usec)
                /\ rcvr'.queue = rcvr.queue
                /\ rcvr'.queued = rcvr.queued
                /\ c \in connected_next
                /\ broadcast_now(<<sleep_ok(zone, M)>>)

\* C15: zone2sleep M and zone3sleep M with M >= 0 set the deadline of the
\* zone to 60 * M seconds after the time of the command, put nothing in the
\* queue, return 0 (the client stays connected and gets no error) and have
\* OK:zone<N>sleep:M written to all connections at once
C15_FakeSleepArm == [][C15_Step]_vars

\* zone2sleep 2 has just been processed
C15_Witness ==
    \E c \in Clients :
        /\ io[c].handed = <<(*"zone2sleep 2"*) <<122, 111, 110, 101, 50, 115, 108, 101, 101, 112, 32, 50>>>>
        /\ rcvr.zone2_sleep = timeval(now.tv_sec + 120, now.tv_usec)
        /\ rcvr.queued = 1
        /\ peer[c].rx # <<>>
        /\ peer[c].rx[Len(peer[c].rx)].line = (*"OK:zone2sleep:2\n"*) <<79, 75, 58, 122, 111, 110, 101, 50, 115, 108, 101, 101, 112, 58, 50, 10>>

\* the minutes left to a deadline, counted on whole seconds and rounded up
minutes_left(r, zone, t) ==
    IF zone_sleep(r, zone).tv_sec > t.tv_sec
    THEN (zone_sleep(r, zone).tv_sec - t.tv_sec + 59) \div 60
    ELSE 0

\* the entries put in the queue in this step that hold the command cmd
enqueued_now(cmd) ==
    {i \in DOMAIN rcvr'.queue :
        rcvr'.queue[i].seq > rcvr.queued /\ rcvr'.queue[i].cmd = cmd}

\* the receiver with both zones armed
both_armed ==
    with_sleep(with_sleep(rcvr, 50, timeval(now.tv_sec + 120, now.tv_usec)),
               51, timeval(now.tv_sec + 60, now.tv_usec))

C16_Step ==
    /\ (pc = "top" /\ serial_out = <<>>) =>
          \A zone \in {50, 51} :
              /\ process_command(both_armed, sleep_line(zone, (*"off"*) <<111, 102, 102>>), now)
                    = [rcvr |-> with_sleep(both_armed, zone, timeval_zero),
                       ret |-> 0,
                       out |-> <<sleep_ok(zone, 0)>>]
              /\ \A arg \in {NULL, (*"status"*) <<115, 116, 97, 116, 117, 115>>} :
                    process_command(both_armed, sleep_line(zone, arg), now)
                       = [rcvr |-> both_armed,
                          ret |-> 0,
                          out |-> <<sleep_ok(zone, IF zone = 50 THEN 2 ELSE 1)>>]
    /\ \A c \in Clients :
          /\ handed_now(c) = <<(*"zone2sleep off"*) <<122, 111, 110, 101, 50, 115, 108, 101, 101, 112, 32, 111, 102, 102>>>>
                => /\ rcvr' = [rcvr EXCEPT !.zone2_sleep = timeval_zero]
                   /\ broadcast_now(<<sleep_ok(50, 0)>>)
          /\ handed_now(c) = <<(*"zone2sleep"*) <<122, 111, 110, 101, 50, 115, 108, 101, 101, 112>>>>
                => /\ rcvr' = rcvr
                   /\ broadcast_now(<<sleep_ok(50, minutes_left(rcvr, 50, now))>>)
    /\ enqueued_now((*"ZPW00"*) <<90, 80, 87, 48, 48>>) # {}
          => /\ pc = "top"
             /\ rcvr.zone2_sleep # timeval_zero
             /\ usec_of(rcvr.zone2_sleep) <= usec_of(now)

\* C16 as amended: zone<N>sleep off clears the deadline of the zone and has
\* OK:zone<N>sleep:0 written to all connections; zone<N>sleep without an
\* argument (or with status) leaves the deadline as it is and has the
\* minutes left written; the power-off of a zone is put in the queue by the
\* timers only when the deadline of the zone is set and reached, so never
\* for a deadline that was cleared
C16_FakeSleepClear == [][C16_Step]_vars

\* C16 as stated: a read pass that hands over zone2sleep off or zone2sleep
\* without an argument leaves the deadline of zone 2 cleared and has
\* OK:zone2sleep:0 written
C16_AbsentClears ==
    [][\A c \in Clients :
          handed_now(c) \in {<<(*"zone2sleep off"*) <<122, 111, 110, 101, 50, 115, 108, 101, 101, 112, 32, 111, 102, 102>>>>, <<(*"zone2sleep"*) <<122, 111, 110, 101, 50, 115, 108, 101, 101, 112>>>>}
             => /\ rcvr'.zone2_sleep = timeval_zero
                /\ broadcast_now(<<sleep_ok(50, 0)>>)]_vars

\* the timer of zone 2 was set and then cleared with off; no power-off was
\* written for it
C16_Witness ==
    \E c \in Clients :
        /\ io[c].handed = <<(*"zone2sleep 2"*) <<122, 111, 110, 101, 50, 115, 108, 101, 101, 112, 32, 50>>, (*"zone2sleep off"*) <<122, 111, 110, 101, 50, 115, 108, 101, 101, 112, 32, 111, 102, 102>>>>
        /\ rcvr.zone2_sleep = timeval_zero
        /\ peer[c].rx[Len(peer[c].rx)].line = (*"OK:zone2sleep:0\n"*) <<79, 75, 58, 122, 111, 110, 101, 50, 115, 108, 101, 101, 112, 58, 48, 10>>
        /\ \A k \in 1..Len(serial_out) : serial_out[k].bytes # (*"!1ZPW00\r\n"*) <<33, 49, 90, 80, 87, 48, 48, 13, 10>>
        /\ now.tv_sec >= start_time.tv_sec + MaxSleepTime

\* the timer of zone 2 was set and then asked for: it is still set
C16_StatusKeeps ==
    \E c \in Clients :
        /\ io[c].handed = <<(*"zone2sleep 2"*) <<122, 111, 110, 101, 50, 115, 108, 101, 101, 112, 32, 50>>, (*"zone2sleep"*) <<122, 111, 110, 101, 50, 115, 108, 101, 101, 112>>>>
        /\ rcvr.zone2_sleep # timeval_zero
        /\ peer[c].rx[Len(peer[c].rx)].line = (*"OK:zone2sleep:1\n"*) <<79, 75, 58, 122, 111, 110, 101, 50, 115, 108, 101, 101, 112, 58, 49, 10>>

\* the command that switches a zone off
zone_off_cmd(zone) == IF zone = 50 THEN (*"ZPW00"*) <<90, 80, 87, 48, 48>> ELSE (*"PW300"*) <<80, 87, 51, 48, 48>>

\* the deadline of the zone is set and reached
expiring(zone) ==
    /\ zone_sleep(rcvr, zone) # timeval_zero
    /\ usec_of(zone_sleep(rcvr, zone)) <= usec_of(now)

C17_Step ==
    /\ (pc = "top" /\ serial_out = <<>>) =>
          \A zone \in {50, 51}, power \in 0..7 :
              LET r == [rcvr EXCEPT !.power = power, !.queue = <<>>]
                  q == process_command(r, zone_power_off(zone), now)
              IN  /\ q.ret = 0
                  /\ Len(q.rcvr.queue) = 1
                  /\ q.rcvr.queue[1].cmd = zone_off_cmd(zone)
                  /\ rcvr_send_command(q.rcvr, now, "full").wrote.bytes
                        = (*"!1"*) <<33, 49>> \o zone_off_cmd(zone) \o (*"\r\n"*) <<13, 10>>
    /\ pc = "top" =>
          /\ broadcast_now((IF expiring(50) THEN <<sleep_ok(50, 0)>> ELSE <<>>)
                           \o (IF expiring(51) THEN <<sleep_ok(51, 0)>> ELSE <<>>))
          /\ \A zone \in {50, 51} :
                expiring(zone)
                   => /\ zone_sleep(rcvr', zone) = timeval_zero
                      /\ \E i \in DOMAIN rcvr'.queue :
                            rcvr'.queue[i].cmd = zone_off_cmd(zone)
    /\ \A zone \in {50, 51} :
          /\ Cardinality(enqueued_now(zone_off_cmd(zone))) <= 1
          /\ enqueued_now(zone_off_cmd(zone)) # {} => pc = "top" /\ expiring(zone)

\* C17: at the top of the loop a deadline that is set and reached has
\* zone<N>power off processed, which puts ZPW00 (PW300) in the queue unless it
\* is there already, has OK:zone<N>sleep:0 written to all connections and
\* is cleared; the command is put in the queue by nothing else and once, and
\* it is written to the receiver as !1ZPW00\r\n (!1PW300\r\n) whatever the
\* power bits are
C17_FakeSleepExpiry == [][C17_Step]_vars

\* zone2sleep 2 has run out with everything off: the client saw 2, 1 and
\* 0 minutes and !1ZPW00 was written to the receiver
C17_Witness ==
    \E c \in Clients, k \in 1..Len(serial_out) :
        /\ serial_out[k].bytes = (*"!1ZPW00\r\n"*) <<33, 49, 90, 80, 87, 48, 48, 13, 10>>
        /\ serial_out[k].power = POWER_OFF
        /\ rcvr.zone2_sleep = timeval_zero
        /\ io[c].handed = <<(*"zone2sleep 2"*) <<122, 111, 110, 101, 50, 115, 108, 101, 101, 112, 32, 50>>>>
        /\ [j \in 1..Len(peer[c].rx) |-> peer[c].rx[j].line]
              = <<startup_msg, (*"OK:zone2sleep:2\n"*) <<79, 75, 58, 122, 111, 110, 101, 50, 115, 108, 101, 101, 112, 58, 50, 10>>, (*"OK:zone2sleep:1\n"*) <<79, 75, 58, 122, 111, 110, 101, 50, 115, 108, 101, 101, 112, 58, 49, 10>>,
                  (*"OK:zone2sleep:0\n"*) <<79, 75, 58, 122, 111, 110, 101, 50, 115, 108, 101, 101, 112, 58, 48, 10>>>>

\* the same with the main zone on, and for zone 3
C17_WitnessZone3 ==
    \E k \in 1..Len(serial_out) :
        /\ serial_out[k].bytes = (*"!1PW300\r\n"*) <<33, 49, 80, 87, 51, 48, 48, 13, 10>>
        /\ serial_out[k].power = MAIN_POWER
        /\ rcvr.zone3_sleep = timeval_zero

\* the zones whose deadline is set
active_zones(r) == {zone \in {50, 51} : zone_sleep(r, zone) # timeval_zero}

\* the countdown lines of the zones whose deadline is set, zone 2 first
countdown(r, t) ==
    (IF 50 \in active_zones(r) THEN <<sleep_ok(50, minutes_left(r, 50, t))>> ELSE <<>>)
    \o (IF 51 \in active_zones(r) THEN <<sleep_ok(51, minutes_left(r, 51, t))>> ELSE <<>>)

\* the minutes of the countdown lines of a zone that a client has received,
\* in the order received
RECURSIVE sleep_values(_, _)
sleep_values(rx, zone) ==
    IF rx = <<>> THEN <<>>
    ELSE LET before == sleep_values(SubSeq(rx, 1, Len(rx) - 1), zone)
             ms     == {m \in 0..3 : rx[Len(rx)].line = sleep_ok(zone, m)}
         IN  IF ms = {} THEN before ELSE Append(before, CHOOSE m \in ms : TRUE)

\* a client has asked for the minutes left
asked ==
    \E c \in Clients :
        \E k \in DOMAIN io[c].handed :
            io[c].handed[k] \in {sleep_line(50, NULL), sleep_line(51, NULL)}

\* deadlines and times that differ in seconds and in parts of a second
SleepTimes ==
    {timeval(s, u) : s \in {1, 2, 60, 61, 62, 120, 121, 122, 181}, u \in {0, 200000, 999999}}

C18_Step ==
    /\ (pc = "top" /\ serial_out = <<>>) =>
          \A zone \in {50, 51}, D \in SleepTimes, t \in SleepTimes :
              LET r == with_sleep(rcvr, zone, D)
                  s == D.tv_sec - t.tv_sec
              IN  /\ \E m \in 0..3 :
                        /\ write_fakesleep_status(r, t, zone) = sleep_ok(zone, m)
                        /\ IF s > 0 THEN 60 * (m - 1) < s /\ s <= 60 * m ELSE m = 0
                  /\ s > 60 =>
                        minutes_left(r, zone, timeval(t.tv_sec + 60, t.tv_usec))
                           = minutes_left(r, zone, t) - 1
    /\ pc = "sleep_update" =>
          /\ rcvr.next_sleep_update # timeval_zero
          /\ usec_of(rcvr.next_sleep_update) <= usec_of(sel.entered)
          /\ broadcast_now(countdown(rcvr, sel.entered))
          /\ \A zone \in active_zones(rcvr) :
                usec_of(zone_sleep(rcvr, zone)) > usec_of(sel.entered)
          /\ usec_of(rcvr'.next_sleep_update) > usec_of(now)
          /\ \E n \in 1..3 :
                usec_of(rcvr'.next_sleep_update)
                   = usec_of(rcvr.next_sleep_update) + n * sleep_interval
          /\ usec_of(rcvr'.next_sleep_update) - usec_of(sel.entered) <= sleep_interval
          /\ rcvr' = [rcvr EXCEPT !.next_sleep_update = rcvr'.next_sleep_update]
    /\ rcvr'.next_sleep_update # rcvr.next_sleep_update
          => pc \in {"top", "sleep_update"}

C18_WitnessAlone ==
    \E c \in Clients :
        /\ io[c].handed = <<(*"zone2sleep 2"*) <<122, 111, 110, 101, 50, 115, 108, 101, 101, 112, 32, 50>>>>
        /\ sleep_values(peer[c].rx, 50) = <<2, 1>>
        /\ rcvr.zone2_sleep = timeval(start_time.tv_sec + 120, 0)
        /\ rcvr.next_sleep_update = timeval(start_time.tv_sec + 120, 0)
        /\ usec_of(now) < usec_of(rcvr.next_sleep_update)

\* the update came a millisecond before the deadline of zone 3, in the same
\* second: 0 minutes were written with the deadline still set
C18_WitnessSameSecond ==
    \E c \in Clients :
        /\ io[c].handed = <<(*"zone2sleep 2"*) <<122, 111, 110, 101, 50, 115, 108, 101, 101, 112, 32, 50>>, (*"zone3sleep 1"*) <<122, 111, 110, 101, 51, 115, 108, 101, 101, 112, 32, 49>>>>
        /\ peer[c].rx[Len(peer[c].rx)].line = (*"OK:zone3sleep:0\n"*) <<79, 75, 58, 122, 111, 110, 101, 51, 115, 108, 101, 101, 112, 58, 48, 10>>
        /\ rcvr.zone3_sleep # timeval_zero
        /\ usec_of(rcvr.zone3_sleep) > usec_of(now)

\* the command name of a line, as process_command() takes it
name_of(str) ==
    LET cmdstr == strip_trailing(str)
        sp     == strchr(cmdstr, 32)
    IN  IF sp = 0 THEN cmdstr ELSE SubSeq(cmdstr, 1, sp - 1)

\* lines whose command name is quit
QuitLines ==
    { (*"quit"*) <<113, 117, 105, 116>>, (*"quit now"*) <<113, 117, 105, 116, 32, 110, 111, 119>>, (*"quit off"*) <<113, 117, 105, 116, 32, 111, 102, 102>>, (*"quit 1 2"*) <<113, 117, 105, 116, 32, 49, 32, 50>>, (*"quit  "*) <<113, 117, 105, 116, 32, 32>>, (*"quit\r"*) <<113, 117, 105, 116, 13>> }

C19_Step ==
    /\ (pc = "top" /\ serial_out = <<>>) =>
          \A line \in QuitLines :
              /\ name_of(line) = (*"quit"*) <<113, 117, 105, 116>>
              /\ process_command(rcvr, line, now) = Result(rcvr, -2)
    /\ \A c \in Clients :
          (\E k \in 1..Len(handed_now(c)) : name_of(handed_now(c)[k]) = (*"quit"*) <<113, 117, 105, 116>>)
             => /\ peer[c].st = "open"
                /\ peer'[c].st = "ended"
                /\ \A i \in Slots : connections'[i].fd # c
                /\ \A d \in Clients \ {c} :
                      /\ peer'[d].st = peer[d].st
                      /\ \A i \in Slots :
                            connections[i].fd = d => connections'[i] = connections[i]

all_closed ==
    /\ rcvr.queue = <<>>
    /\ ~proc.serialdev /\ ~proc.logfd /\ ~proc.listener
    /\ ~proc.signalpipe_rd /\ ~proc.signalpipe_wr
    /\ \A i \in Slots : ~live(connections, i)
    /\ backlog = <<>>
    /\ \A c \in Clients : peer[c].st \in {"idle", "ended"}

C20_Inv ==
    /\ pc = "exit" => all_closed /\ proc.status = "EXIT_SUCCESS"
    /\ pc # "exit" => proc = running

C20_Step ==
    /\ pc # "exit"
    /\ (pc = "signal" /\ Head(signalpipe) = "SIGINT")
          => /\ pc' = "exit"
             /\ serial_out' = serial_out
    /\ pc' = "exit" => pc = "signal" /\ Head(signalpipe) = "SIGINT"

NoStart ==
    NoiseReads \cup { (*"!"*) <<33>>, (*"1"*) <<49>>, (*"PWR01\z"*) <<80, 87, 82, 48, 49, 26>>, (*"! 1PWR01\z"*) <<33, 32, 49, 80, 87, 82, 48, 49, 26>>, <<0, 0, 0>>,
                      (*"!\z1PWR01"*) <<33, 26, 49, 80, 87, 82, 48, 49>>, [j \in 1..(BUF_SIZE - 1) |-> 33] }

C21_Step ==
    /\ (pc = "top" /\ serial_out = <<>>) =>
          \A bytes \in NoStart, power \in 0..7 :
              LET r == [both_armed EXCEPT !.power = power]
              IN  process_incoming_message(r, bytes)
                     = [rcvr |-> r, ret |-> -1, out |-> <<rcvr_err>>]
    /\ (pc = "serial_read" /\ Head(serial_in).bytes \in NoStart) =>
          /\ rcvr' = rcvr
          /\ \A d \in connected_next :
                peer'[d].rx = peer[d].rx \o tagged(<<rcvr_err>>, Head(serial_in).seq)
          /\ \A i \in Slots :
                \/ connections'[i] = connections[i]
                \/ /\ live(connections, i) /\ peer[connections[i].fd].closed
                   /\ connections'[i] = free_conn
          /\ pc' \in {"top", "serial_write", "accept", "input"}
          /\ proc' = proc
          /\ serial_in' = Tail(serial_in)

\* C21: a read of the serial line that delivers nothing, or bytes without
\* the start characters !1, has ERROR:Receiver Error written to all
\* connections and returns -1; the receiver (power, sleep deadlines, queue,
\* counters) is as before, and the loop goes on with its next step
C21_ParseFailure == [][C21_Step]_vars

\* a client has received the error for a read without start characters and
\* then the line of a message that came after it
C21_Witness ==
    \E c \in Clients :
        /\ [j \in 1..Len(peer[c].rx) |-> peer[c].rx[j].line]
              = <<startup_msg, rcvr_err, (*"OK:power:on\n"*) <<79, 75, 58, 112, 111, 119, 101, 114, 58, 111, 110, 10>>>>
        /\ rcvr.power = MAIN_POWER
        /\ rcvr.msgs_received = 1
        /\ proc = running

\* the error was written with the sleep timer of zone 2 set: it is still set
C21_WitnessSleep ==
    \E c \in Clients :
        /\ io[c].handed = <<(*"zone2sleep 2"*) <<122, 111, 110, 101, 50, 115, 108, 101, 101, 112, 32, 50>>>>
        /\ peer[c].rx[Len(peer[c].rx)].line = rcvr_err
        /\ rcvr.zone2_sleep # timeval_zero
        /\ rcvr.power = MAIN_POWER

\* the entry the write to the serial line takes from the queue
popped == next_rcvr_command(rcvr).ptr

\* this step writes a command to the serial line and the write is short or
\* fails
short_write ==
    /\ pc = "serial_write"
    /\ popped # no_cmd
    /\ count'.faults = count.faults + 1

\* the lines client d has received in this step
received_now(d) ==
    [j \in 1..(Len(peer'[d].rx) - Len(peer[d].rx)) |->
        peer'[d].rx[Len(peer[d].rx) + j].line]

\* C22: when the write of a command to the receiver is short or fails, the
\* send returns -1, ERROR:Receiver Error is written to every connection, the
\* command has left the queue, and the loop goes on
C22_ShortWrite ==
    [][short_write =>
          /\ rcvr_send_command(rcvr, now, "short").ret = -1
          /\ rcvr_send_command(rcvr, now, "fail").ret = -1
          /\ \A d \in connected_next : received_now(d) = <<rcvr_err>>
          /\ \A i \in DOMAIN rcvr'.queue : rcvr'.queue[i].seq # popped.seq
          /\ pc' \in {"top", "accept", "input"}
          /\ proc' = proc]_vars

\* what of C22 the code does: the send returns -1, the command has left the
\* queue with those passed over before it, is not counted as sent, the time
\* of the last command is set, and the loop goes on; the connections are not
\* written to
C22_Dropped ==
    [][short_write =>
          /\ rcvr_send_command(rcvr, now, "short").ret = -1
          /\ rcvr_send_command(rcvr, now, "fail").ret = -1
          /\ \A i \in DOMAIN rcvr'.queue : rcvr'.queue[i].seq > popped.seq
          /\ rcvr'.cmds_sent = rcvr.cmds_sent
          /\ rcvr'.last_cmd = now
          /\ pc' \in {"top", "accept", "input"}
          /\ proc' = proc
          /\ peer' = peer /\ connections' = connections]_vars

\* a client had PWR01 queued, all but the last byte of it was written, and
\* the command is gone: the client has received the greeting and no more
C22_Silent ==
    \E c \in Clients :
        /\ io[c].handed = <<(*"power on"*) <<112, 111, 119, 101, 114, 32, 111, 110>>>>
        /\ Len(serial_out) = 2
        /\ serial_out[2].bytes = (*"!1PWR01\r"*) <<33, 49, 80, 87, 82, 48, 49, 13>>
        /\ count.faults = 1
        /\ rcvr.queue = <<>>
        /\ rcvr.cmds_sent = 1
        /\ pc = "select"
        /\ peer[c].st = "open"
        /\ [j \in 1..Len(peer[c].rx) |-> peer[c].rx[j].line] = <<startup_msg>>


(***************************************************************************)
(* C23.  Volume round trip.                                                *)
(***************************************************************************)
hex_digit(d) == IF d < 10 THEN 48 + d ELSE 55 + d

\* N as two upper-case hexadecimal digits
two_hex(N) == <<hex_digit(N \div 16), hex_digit(N % 16)>>

VolumeCmds ==
    { [name |-> (*"volume"*) <<118, 111, 108, 117, 109, 101>>,      prefix |-> (*"MVL"*) <<77, 86, 76>>, zone |-> <<>>],
      [name |-> (*"zone2volume"*) <<122, 111, 110, 101, 50, 118, 111, 108, 117, 109, 101>>, prefix |-> (*"ZVL"*) <<90, 86, 76>>, zone |-> (*"zone2"*) <<122, 111, 110, 101, 50>>],
      [name |-> (*"zone3volume"*) <<122, 111, 110, 101, 51, 118, 111, 108, 117, 109, 101>>, prefix |-> (*"VL3"*) <<86, 76, 51>>, zone |-> (*"zone3"*) <<122, 111, 110, 101, 51>>] }

volume_answers(v, N) ==
    { (*"OK:"*) <<79, 75, 58>> \o v.zone \o (*"volume:"*) <<118, 111, 108, 117, 109, 101, 58>> \o fmt_ld(N) \o (*"\n"*) <<10>>,
      (*"OK:"*) <<79, 75, 58>> \o v.zone \o (*"dbvolume:"*) <<100, 98, 118, 111, 108, 117, 109, 101, 58>> \o fmt_ld(N - 82) \o (*"\n"*) <<10>> }

lines_received(d) == {peer[d].rx[i].line : i \in DOMAIN peer[d].rx}

\* C23: for every N in 0..100 and each of volume, zone2volume and
\* zone3volume, the command line enqueues the prefix (MVL, ZVL, VL3) followed
\* by N as two upper-case hexadecimal digits and answers nothing; reading the
\* receiver's report of that code sends every connected client exactly the
\* volume line with N and the dbvolume line with N - 82; so a client that
\* sent the line and whose code was reported back has received the greeting
\* and those two lines and nothing else.
C23_Step ==
    /\ pc = "input" =>
        \A c \in Clients, v \in VolumeCmds, N \in 0..100 :
            handed_now(c) = <<v.name \o <<32>> \o fmt_ld(N)>> =>
                /\ Len(rcvr'.queue) = Len(rcvr.queue) + 1
                /\ rcvr'.queue[Len(rcvr'.queue)].cmd = v.prefix \o two_hex(N)
                /\ received_now(c) = <<>>
    /\ (pc = "serial_read" /\ serial_in # <<>>) =>
        \A v \in VolumeCmds, N \in 0..100 :
            Head(serial_in).bytes = START_RECV \o v.prefix \o two_hex(N) \o END_RECV =>
                \A d \in connected_next :
                    /\ Len(received_now(d)) = 2
                    /\ {received_now(d)[j] : j \in 1..2} = volume_answers(v, N)
    /\ rcvr.msgs_received = 2 =>
        \A v \in VolumeCmds, N \in 0..100 :
            io[1].sent = cmd_line(v.name, fmt_ld(N)) =>
                /\ Len(serial_out) = 2
                /\ serial_out[2].bytes = START_SEND \o v.prefix \o two_hex(N) \o END_SEND
                /\ Len(peer[1].rx) = 3
                /\ lines_received(1) = {startup_msg} \cup volume_answers(v, N)

C23_VolumeRoundTrip == [][C23_Step]_vars

\* volume 42 was written as MVL2A and came back as volume 42, dbvolume -40
C23_Witness ==
    /\ io[1].sent = (*"volume 42\n"*) <<118, 111, 108, 117, 109, 101, 32, 52, 50, 10>>
    /\ Len(serial_out) = 2
    /\ serial_out[2].bytes = (*"!1MVL2A\r\n"*) <<33, 49, 77, 86, 76, 50, 65, 13, 10>>
    /\ rcvr.msgs_received = 2
    /\ lines_received(1) =
           {startup_msg, (*"OK:volume:42\n"*) <<79, 75, 58, 118, 111, 108, 117, 109, 101, 58, 52, 50, 10>>, (*"OK:dbvolume:-40\n"*) <<79, 75, 58, 100, 98, 118, 111, 108, 117, 109, 101, 58, 45, 52, 48, 10>>}

\* the ends of the range in the other zones
C23_WitnessZones ==
    \/ /\ io[1].sent = (*"zone2volume 100\n"*) <<122, 111, 110, 101, 50, 118, 111, 108, 117, 109, 101, 32, 49, 48, 48, 10>>
       /\ lines_received(1) =
              {startup_msg, (*"OK:zone2volume:100\n"*) <<79, 75, 58, 122, 111, 110, 101, 50, 118, 111, 108, 117, 109, 101, 58, 49, 48, 48, 10>>, (*"OK:zone2dbvolume:18\n"*) <<79, 75, 58, 122, 111, 110, 101, 50, 100, 98, 118, 111, 108, 117, 109, 101, 58, 49, 56, 10>>}
    \/ /\ io[1].sent = (*"zone3volume 0\n"*) <<122, 111, 110, 101, 51, 118, 111, 108, 117, 109, 101, 32, 48, 10>>
       /\ lines_received(1) =
              {startup_msg, (*"OK:zone3volume:0\n"*) <<79, 75, 58, 122, 111, 110, 101, 51, 118, 111, 108, 117, 109, 101, 58, 48, 10>>, (*"OK:zone3dbvolume:-82\n"*) <<79, 75, 58, 122, 111, 110, 101, 51, 100, 98, 118, 111, 108, 117, 109, 101, 58, 45, 56, 50, 10>>}

(***************************************************************************)
(* C24.  Tune round trip.                                                  *)
(***************************************************************************)
\* n as five decimal digits
five_digits(n) ==
    <<48 + ((n \div 10000) % 10), 48 + ((n \div 1000) % 10),
      48 + ((n \div 100) % 10), 48 + ((n \div 10) % 10), 48 + (n % 10)>>

\* the tunings of the claim: the argument, the number the code carries and
\* the answer
Tunings ==
    {[arg |-> fm_arg(t), number |-> ((t \div 10) * 100) + ((t % 10) * 10),
      answer |-> (*"OK:tune:"*) <<79, 75, 58, 116, 117, 110, 101, 58>> \o fm_arg(t) \o (*" FM\n"*) <<32, 70, 77, 10>>] : t \in FMBand}
        \cup {[arg |-> fmt_ld(K), number |-> K,
               answer |-> (*"OK:tune:"*) <<79, 75, 58, 116, 117, 110, 101, 58>> \o fmt_ld(K) \o (*" AM\n"*) <<32, 65, 77, 10>>] : K \in AMBand}

\* C24: for every FM frequency F.D in 87.5..107.9 and every AM frequency K
\* in 530..1710, the line `tune F.D` resp. `tune K` enqueues TUN followed by
\* the five decimal digits of F*100 + D*10 resp. of K and answers nothing;
\* reading the receiver's report of that code sends every connected client
\* exactly `OK:tune:F.D FM` resp. `OK:tune:K AM`; so a client that sent the
\* line and whose code was reported back has received the greeting and that
\* line and nothing else.
C24_Step ==
    /\ pc = "input" =>
        \A c \in Clients :
            LET sent_tune(line) ==
                    \A u \in Tunings :
                        line = <<(*"tune "*) <<116, 117, 110, 101, 32>> \o u.arg>> =>
                            /\ Len(rcvr'.queue) = Len(rcvr.queue) + 1
                            /\ rcvr'.queue[Len(rcvr'.queue)].cmd =
                                   (*"TUN"*) <<84, 85, 78>> \o five_digits(u.number)
                            /\ received_now(c) = <<>>
            IN  sent_tune(handed_now(c))
    /\ (pc = "serial_read" /\ serial_in # <<>>) =>
        LET read_tune(bytes) ==
                \A u \in Tunings :
                    bytes = START_RECV \o (*"TUN"*) <<84, 85, 78>> \o five_digits(u.number) \o END_RECV =>
                        \A d \in connected_next : received_now(d) = <<u.answer>>
        IN  read_tune(Head(serial_in).bytes)
    /\ rcvr.msgs_received = 2 =>
        \A u \in Tunings :
            io[1].sent = cmd_line((*"tune"*) <<116, 117, 110, 101>>, u.arg) =>
                /\ Len(serial_out) = 2
                /\ serial_out[2].bytes =
                       START_SEND \o (*"TUN"*) <<84, 85, 78>> \o five_digits(u.number) \o END_SEND
                /\ [i \in DOMAIN peer[1].rx |-> peer[1].rx[i].line] =
                       <<startup_msg, u.answer>>

C24_TuneRoundTrip == [][C24_Step]_vars

\* tune 97.9 was written as TUN09790 and came back as 97.9 FM
C24_Witness ==
    /\ io[1].sent = (*"tune 97.9\n"*) <<116, 117, 110, 101, 32, 57, 55, 46, 57, 10>>
    /\ Len(serial_out) = 2
    /\ serial_out[2].bytes = (*"!1TUN09790\r\n"*) <<33, 49, 84, 85, 78, 48, 57, 55, 57, 48, 13, 10>>
    /\ rcvr.msgs_received = 2
    /\ lines_received(1) = {startup_msg, (*"OK:tune:97.9 FM\n"*) <<79, 75, 58, 116, 117, 110, 101, 58, 57, 55, 46, 57, 32, 70, 77, 10>>}

\* the ends of both bands
C24_WitnessEnds ==
    \/ io[1].sent = (*"tune 87.5\n"*) <<116, 117, 110, 101, 32, 56, 55, 46, 53, 10>> /\ (*"OK:tune:87.5 FM\n"*) <<79, 75, 58, 116, 117, 110, 101, 58, 56, 55, 46, 53, 32, 70, 77, 10>> \in lines_received(1)
    \/ io[1].sent = (*"tune 107.9\n"*) <<116, 117, 110, 101, 32, 49, 48, 55, 46, 57, 10>> /\ (*"OK:tune:107.9 FM\n"*) <<79, 75, 58, 116, 117, 110, 101, 58, 49, 48, 55, 46, 57, 32, 70, 77, 10>> \in lines_received(1)
    \/ io[1].sent = (*"tune 530\n"*) <<116, 117, 110, 101, 32, 53, 51, 48, 10>> /\ (*"OK:tune:530 AM\n"*) <<79, 75, 58, 116, 117, 110, 101, 58, 53, 51, 48, 32, 65, 77, 10>> \in lines_received(1)
    \/ io[1].sent = (*"tune 1710\n"*) <<116, 117, 110, 101, 32, 49, 55, 49, 48, 10>> /\ (*"OK:tune:1710 AM\n"*) <<79, 75, 58, 116, 117, 110, 101, 58, 49, 55, 49, 48, 32, 65, 77, 10>> \in lines_received(1)

(***************************************************************************)
(* C25.  The FM range.                                                     *)
(***************************************************************************)
\* the line was taken: one more code is pending and nothing is answered
taken_now(c) ==
    /\ Len(rcvr'.queue) = Len(rcvr.queue) + 1
    /\ received_now(c) = <<>>

\* the line was refused: the client is told so and nothing else changes
refused_now(c) ==
    /\ rcvr' = rcvr
    /\ received_now(c) = <<invalid_cmd>>

\* C25: `tune F.D` is accepted exactly when 87.5 <= F.D <= 107.9; every FM
\* value outside that range is answered ERROR:Invalid Command and enqueues
\* nothing.
C25_Step ==
    pc = "input" =>
        \A c \in Clients, t \in FMBand \cup FMOutside :
            handed_now(c) = <<(*"tune "*) <<116, 117, 110, 101, 32>> \o fm_arg(t)>> =>
                IF t \in FMBand THEN taken_now(c) ELSE refused_now(c)

C25_FMRange == [][C25_Step]_vars

\* what the range test of handle_tune does: F.D is taken when F <= 107 and
\* either F >= 88 or D >= 5
C25_StepTaken ==
    pc = "input" =>
        \A c \in Clients, t \in FMBand \cup FMOutside :
            handed_now(c) = <<(*"tune "*) <<116, 117, 110, 101, 32>> \o fm_arg(t)>> =>
                IF (t \div 10) <= 107 /\ ((t \div 10) >= 88 \/ (t % 10) >= 5)
                THEN /\ taken_now(c)
                     /\ rcvr'.queue[Len(rcvr'.queue)].cmd =
                            (*"TUN"*) <<84, 85, 78>> \o five_digits(((t \div 10) * 100) + ((t % 10) * 10))
                ELSE refused_now(c)

C25_Taken == [][C25_StepTaken]_vars

\* tune 86.9 and tune 50.5 went out to the receiver
C25_Below ==
    \/ /\ io[1].sent = (*"tune 86.9\n"*) <<116, 117, 110, 101, 32, 56, 54, 46, 57, 10>>
       /\ Len(serial_out) = 2
       /\ serial_out[2].bytes = (*"!1TUN08690\r\n"*) <<33, 49, 84, 85, 78, 48, 56, 54, 57, 48, 13, 10>>
       /\ lines_received(1) = {startup_msg}
    \/ /\ io[1].sent = (*"tune 50.5\n"*) <<116, 117, 110, 101, 32, 53, 48, 46, 53, 10>>
       /\ Len(serial_out) = 2
       /\ serial_out[2].bytes = (*"!1TUN05050\r\n"*) <<33, 49, 84, 85, 78, 48, 53, 48, 53, 48, 13, 10>>
       /\ lines_received(1) = {startup_msg}

\* tune 87.4 and tune 108.0 were refused
C25_Refused ==
    /\ io[1].sent \in {(*"tune 87.4\n"*) <<116, 117, 110, 101, 32, 56, 55, 46, 52, 10>>, (*"tune 108.0\n"*) <<116, 117, 110, 101, 32, 49, 48, 56, 46, 48, 10>>}
    /\ io[1].handed # <<>>
    /\ lines_received(1) = {startup_msg, invalid_cmd}
    /\ rcvr.queue = <<>>
    /\ Len(serial_out) = 1

(***************************************************************************)
(* C26.  Integer ranges.                                                   *)
(***************************************************************************)
\* C26: a line of volume, dbvolume, preset, sleep, tune (AM) or swlevel with
\* an integer argument is taken exactly when the integer lies in the closed
\* range of the command (0..100, -82..18, 0..40, 0..90, 530..1710, -15..12)
\* and is answered ERROR:Invalid Command, with nothing enqueued, otherwise.
C26_Step ==
    pc = "input" =>
        \A c \in Clients :
            LET ranged(line) ==
                    \A g \in IntRanges :
                        name_of(line) = g.name =>
                            \A n \in (g.lo - Margin)..(g.hi + Margin) :
                                line = g.name \o <<32>> \o fmt_ld(n) =>
                                    IF g.lo <= n /\ n <= g.hi
                                    THEN taken_now(c) ELSE refused_now(c)
            IN  handed_now(c) # <<>> => ranged(handed_now(c)[1])

C26_IntegerRanges == [][C26_Step]_vars

\* the last value of a range was written to the receiver
C26_Witness ==
    \/ io[1].sent = (*"volume 100\n"*) <<118, 111, 108, 117, 109, 101, 32, 49, 48, 48, 10>> /\ Len(serial_out) = 2
           /\ serial_out[2].bytes = (*"!1MVL64\r\n"*) <<33, 49, 77, 86, 76, 54, 52, 13, 10>>
    \/ io[1].sent = (*"sleep 90\n"*) <<115, 108, 101, 101, 112, 32, 57, 48, 10>> /\ Len(serial_out) = 2
           /\ serial_out[2].bytes = (*"!1SLP5A\r\n"*) <<33, 49, 83, 76, 80, 53, 65, 13, 10>>
    \/ io[1].sent = (*"tune 1710\n"*) <<116, 117, 110, 101, 32, 49, 55, 49, 48, 10>> /\ Len(serial_out) = 2
           /\ serial_out[2].bytes = (*"!1TUN01710\r\n"*) <<33, 49, 84, 85, 78, 48, 49, 55, 49, 48, 13, 10>>

\* the first value beyond a range was refused
C26_WitnessBeyond ==
    /\ io[1].sent \in {(*"volume 101\n"*) <<118, 111, 108, 117, 109, 101, 32, 49, 48, 49, 10>>, (*"sleep 91\n"*) <<115, 108, 101, 101, 112, 32, 57, 49, 10>>, (*"tune 529\n"*) <<116, 117, 110, 101, 32, 53, 50, 57, 10>>,
                       (*"tune 1711\n"*) <<116, 117, 110, 101, 32, 49, 55, 49, 49, 10>>, (*"dbvolume -83\n"*) <<100, 98, 118, 111, 108, 117, 109, 101, 32, 45, 56, 51, 10>>, (*"dbvolume 19\n"*) <<100, 98, 118, 111, 108, 117, 109, 101, 32, 49, 57, 10>>,
                       (*"preset 41\n"*) <<112, 114, 101, 115, 101, 116, 32, 52, 49, 10>>, (*"swlevel -16\n"*) <<115, 119, 108, 101, 118, 101, 108, 32, 45, 49, 54, 10>>, (*"swlevel 13\n"*) <<115, 119, 108, 101, 118, 101, 108, 32, 49, 51, 10>>,
                       (*"volume -1\n"*) <<118, 111, 108, 117, 109, 101, 32, 45, 49, 10>>}
    /\ io[1].handed # <<>>
    /\ lines_received(1) = {startup_msg, invalid_cmd}
    /\ rcvr.queue = <<>>
    /\ Len(serial_out) = 1

(***************************************************************************)
(* C27.  Full-string consumption.                                          *)
(***************************************************************************)
\* C27: for every command with a numeric argument (volume, dbvolume, preset,
\* avsync, swlevel, sleep, tune with an AM and an FM frequency, zone2sleep,
\* zone3sleep) an argument that goes on after the number with a character
\* that is no digit is answered ERROR:Invalid Command and enqueues nothing.
C27_Step ==
    pc = "input" =>
        \A c \in Clients, m \in Numbers, t \in Trailers :
            handed_now(c) = <<m.name \o <<32>> \o m.arg \o t>> => refused_now(c)

C27_FullString == [][C27_Step]_vars

\* what the handlers do: all but handle_tune refuse the argument;
\* handle_tune takes the number and ignores what follows it
C27_StepTune ==
    pc = "input" =>
        \A c \in Clients, m \in Numbers, t \in Trailers :
            handed_now(c) = <<m.name \o <<32>> \o m.arg \o t>> =>
                IF m.name # (*"tune"*) <<116, 117, 110, 101>> THEN refused_now(c)
                ELSE /\ taken_now(c)
                     /\ rcvr'.queue[Len(rcvr'.queue)].cmd =
                            IF m.arg = (*"600"*) <<54, 48, 48>> THEN (*"TUN00600"*) <<84, 85, 78, 48, 48, 54, 48, 48>> ELSE (*"TUN09790"*) <<84, 85, 78, 48, 57, 55, 57, 48>>

C27_TuneIgnoresRest == [][C27_StepTune]_vars

\* tune 600abc and tune 97.9abc went out to the receiver
C27_Tuned ==
    \/ /\ io[1].sent = (*"tune 600abc\n"*) <<116, 117, 110, 101, 32, 54, 48, 48, 97, 98, 99, 10>>
       /\ Len(serial_out) = 2
       /\ serial_out[2].bytes = (*"!1TUN00600\r\n"*) <<33, 49, 84, 85, 78, 48, 48, 54, 48, 48, 13, 10>>
       /\ lines_received(1) = {startup_msg}
    \/ /\ io[1].sent = (*"tune 97.9abc\n"*) <<116, 117, 110, 101, 32, 57, 55, 46, 57, 97, 98, 99, 10>>
       /\ Len(serial_out) = 2
       /\ serial_out[2].bytes = (*"!1TUN09790\r\n"*) <<33, 49, 84, 85, 78, 48, 57, 55, 57, 48, 13, 10>>
       /\ lines_received(1) = {startup_msg}

\* volume 42x was refused
C27_Refused ==
    /\ io[1].sent = (*"volume 42x\n"*) <<118, 111, 108, 117, 109, 101, 32, 52, 50, 120, 10>>
    /\ io[1].handed = <<(*"volume 42x"*) <<118, 111, 108, 117, 109, 101, 32, 52, 50, 120>>>>
    /\ lines_received(1) = {startup_msg, invalid_cmd}
    /\ rcvr.queue = <<>>
    /\ Len(serial_out) = 1

(***************************************************************************)
(* C28.  Subwoofer level encoding.                                         *)
(***************************************************************************)
SubLevels == -15..12

\* what follows SWL for the level L
sw_code(L) ==
    IF L = 0 THEN (*"00"*) <<48, 48>>
    ELSE IF L > 0 THEN <<43, hex_digit(L)>>
    ELSE <<45, hex_digit(0 - L)>>

\* L in decimal with its sign written out
signed_decimal(L) == IF L < 0 THEN fmt_ld(L) ELSE <<43>> \o fmt_ld(L)

sw_answer(L) == (*"OK:swlevel:"*) <<79, 75, 58, 115, 119, 108, 101, 118, 101, 108, 58>> \o signed_decimal(L) \o (*"\n"*) <<10>>

\* C28: for every L in -15..12 the line `swlevel L` enqueues SWL followed by
\* 00 (L = 0), + and the hexadecimal digit of L (L > 0) or - and the
\* hexadecimal digit of -L (L < 0) and answers nothing; reading the
\* receiver's report of that code sends every connected client exactly
\* OK:swlevel: followed by L in decimal with an explicit sign; so a client
\* that sent the line and whose code was reported back has received the
\* greeting and that line and nothing else.
C28_Step ==
    /\ pc = "input" =>
        \A c \in Clients, L \in SubLevels :
            handed_now(c) = <<(*"swlevel "*) <<115, 119, 108, 101, 118, 101, 108, 32>> \o fmt_ld(L)>> =>
                /\ taken_now(c)
                /\ rcvr'.queue[Len(rcvr'.queue)].cmd = (*"SWL"*) <<83, 87, 76>> \o sw_code(L)
    /\ (pc = "serial_read" /\ serial_in # <<>>) =>
        \A L \in SubLevels :
            Head(serial_in).bytes = START_RECV \o (*"SWL"*) <<83, 87, 76>> \o sw_code(L) \o END_RECV =>
                \A d \in connected_next : received_now(d) = <<sw_answer(L)>>
    /\ rcvr.msgs_received = 2 =>
        \A L \in SubLevels :
            io[1].sent = cmd_line((*"swlevel"*) <<115, 119, 108, 101, 118, 101, 108>>, fmt_ld(L)) =>
                /\ Len(serial_out) = 2
                /\ serial_out[2].bytes =
                       START_SEND \o (*"SWL"*) <<83, 87, 76>> \o sw_code(L) \o END_SEND
                /\ [i \in DOMAIN peer[1].rx |-> peer[1].rx[i].line] =
                       <<startup_msg, sw_answer(L)>>

C28_SubwooferLevel == [][C28_Step]_vars

\* swlevel -15 was written as SWL-F and came back as -15
C28_Witness ==
    /\ io[1].sent = (*"swlevel -15\n"*) <<115, 119, 108, 101, 118, 101, 108, 32, 45, 49, 53, 10>>
    /\ Len(serial_out) = 2
    /\ serial_out[2].bytes = (*"!1SWL-F\r\n"*) <<33, 49, 83, 87, 76, 45, 70, 13, 10>>
    /\ rcvr.msgs_received = 2
    /\ lines_received(1) = {startup_msg, (*"OK:swlevel:-15\n"*) <<79, 75, 58, 115, 119, 108, 101, 118, 101, 108, 58, 45, 49, 53, 10>>}

\* swlevel 12 as SWL+C and +12, swlevel 0 as SWL00 and +0
C28_WitnessPlus ==
    \/ /\ io[1].sent = (*"swlevel 12\n"*) <<115, 119, 108, 101, 118, 101, 108, 32, 49, 50, 10>>
       /\ Len(serial_out) = 2
       /\ serial_out[2].bytes = (*"!1SWL+C\r\n"*) <<33, 49, 83, 87, 76, 43, 67, 13, 10>>
       /\ lines_received(1) = {startup_msg, (*"OK:swlevel:+12\n"*) <<79, 75, 58, 115, 119, 108, 101, 118, 101, 108, 58, 43, 49, 50, 10>>}
    \/ /\ io[1].sent = (*"swlevel 0\n"*) <<115, 119, 108, 101, 118, 101, 108, 32, 48, 10>>
       /\ Len(serial_out) = 2
       /\ serial_out[2].bytes = (*"!1SWL00\r\n"*) <<33, 49, 83, 87, 76, 48, 48, 13, 10>>
       /\ lines_received(1) = {startup_msg, (*"OK:swlevel:+0\n"*) <<79, 75, 58, 115, 119, 108, 101, 118, 101, 108, 58, 43, 48, 10>>}

C28_WitnessZero ==
    /\ io[1].sent = (*"swlevel 0\n"*) <<115, 119, 108, 101, 118, 101, 108, 32, 48, 10>>
    /\ lines_received(1) = {startup_msg, (*"OK:swlevel:+0\n"*) <<79, 75, 58, 115, 119, 108, 101, 118, 101, 108, 58, 43, 48, 10>>}

(***************************************************************************)
(* C29.  The status command.                                               *)
(***************************************************************************)
MainCodes == << (*"PWR"*) <<80, 87, 82>>, (*"MVL"*) <<77, 86, 76>>, (*"AMT"*) <<65, 77, 84>>, (*"SLI"*) <<83, 76, 73>>, (*"LMD"*) <<76, 77, 68>>, (*"TUN"*) <<84, 85, 78>> >>

Zone2Codes == << (*"ZPW"*) <<90, 80, 87>>, (*"ZVL"*) <<90, 86, 76>>, (*"ZMT"*) <<90, 77, 84>>, (*"SLZ"*) <<83, 76, 90>>, (*"TUZ"*) <<84, 85, 90>> >>

Zone3Codes == << (*"PW3"*) <<80, 87, 51>>, (*"VL3"*) <<86, 76, 51>>, (*"MT3"*) <<77, 84, 51>>, (*"SL3"*) <<83, 76, 51>>, (*"TU3"*) <<84, 85, 51>> >>

\* the queries that stand before a status line in the chunks, and their code
Queries ==
    { [line |-> (*"volume"*) <<118, 111, 108, 117, 109, 101>>,      code |-> (*"MVL"*) <<77, 86, 76>>],
      [line |-> (*"tune"*) <<116, 117, 110, 101>>,        code |-> (*"TUN"*) <<84, 85, 78>>],
      [line |-> (*"zone2tune"*) <<122, 111, 110, 101, 50, 116, 117, 110, 101>>,   code |-> (*"TUZ"*) <<84, 85, 90>>],
      [line |-> (*"zone2power"*) <<122, 111, 110, 101, 50, 112, 111, 119, 101, 114>>,  code |-> (*"ZPW"*) <<90, 80, 87>>],
      [line |-> (*"zone3volume"*) <<122, 111, 110, 101, 51, 118, 111, 108, 117, 109, 101>>, code |-> (*"VL3"*) <<86, 76, 51>>] }

\* `status` with an argument that names no zone
StatusOther ==
    { (*"status bogus"*) <<115, 116, 97, 116, 117, 115, 32, 98, 111, 103, 117, 115>>, (*"status zone4"*) <<115, 116, 97, 116, 117, 115, 32, 122, 111, 110, 101, 52>>, (*"status Main"*) <<115, 116, 97, 116, 117, 115, 32, 77, 97, 105, 110>>, (*"status zone2x"*) <<115, 116, 97, 116, 117, 115, 32, 122, 111, 110, 101, 50, 120>> }

\* the codes a line asks for
codes_asked(line) ==
    IF line \in {(*"status"*) <<115, 116, 97, 116, 117, 115>>, (*"status main"*) <<115, 116, 97, 116, 117, 115, 32, 109, 97, 105, 110>>} THEN MainCodes
    ELSE IF line \in {(*"status zone2"*) <<115, 116, 97, 116, 117, 115, 32, 122, 111, 110, 101, 50>>, (*"zone2status"*) <<122, 111, 110, 101, 50, 115, 116, 97, 116, 117, 115>>} THEN Zone2Codes
    ELSE IF line \in {(*"status zone3"*) <<115, 116, 97, 116, 117, 115, 32, 122, 111, 110, 101, 51>>, (*"zone3status"*) <<122, 111, 110, 101, 51, 115, 116, 97, 116, 117, 115>>} THEN Zone3Codes
    ELSE IF \E q \in Queries : q.line = line
    THEN <<(CHOOSE q \in Queries : q.line = line).code>>
    ELSE <<>>

StatusForms ==
    {(*"status"*) <<115, 116, 97, 116, 117, 115>>, (*"status main"*) <<115, 116, 97, 116, 117, 115, 32, 109, 97, 105, 110>>, (*"status zone2"*) <<115, 116, 97, 116, 117, 115, 32, 122, 111, 110, 101, 50>>, (*"zone2status"*) <<122, 111, 110, 101, 50, 115, 116, 97, 116, 117, 115>>,
     (*"status zone3"*) <<115, 116, 97, 116, 117, 115, 32, 122, 111, 110, 101, 51>>, (*"zone3status"*) <<122, 111, 110, 101, 51, 115, 116, 97, 116, 117, 115>>} \cup StatusOther
        \cup {q.line : q \in Queries}

RECURSIVE append_missing(_, _)
\* the pending commands q with the QSTN of each code put behind them, in
\* order, unless it is among them
append_missing(q, codes) ==
    IF codes = <<>> THEN q
    ELSE append_missing(IF \E i \in DOMAIN q : q[i] = Head(codes) \o (*"QSTN"*) <<81, 83, 84, 78>>
                        THEN q ELSE Append(q, Head(codes) \o (*"QSTN"*) <<81, 83, 84, 78>>),
                        Tail(codes))

RECURSIVE pending_after(_, _)
pending_after(q, lines) ==
    IF lines = <<>> THEN q
    ELSE pending_after(append_missing(q, codes_asked(Head(lines))), Tail(lines))

RECURSIVE refusals(_)
refusals(lines) ==
    IF lines = <<>> THEN <<>>
    ELSE (IF Head(lines) \in StatusOther THEN <<invalid_cmd>> ELSE <<>>)
             \o refusals(Tail(lines))

pending(r) == [i \in DOMAIN r.queue |-> r.queue[i].cmd]

\* C29: `status` and `status main` put the queries of PWR, MVL, AMT, SLI,
\* LMD, TUN behind the pending commands in that order, `status zone2` and
\* `zone2status` those of ZPW, ZVL, ZMT, SLZ, TUZ, `status zone3` and
\* `zone3status` those of PW3, VL3, MT3, SL3, TU3; a query that is pending
\* already is left where it is and the others keep their order; `status`
\* with any other argument is answered ERROR:Invalid Command and enqueues
\* nothing.
C29_Step ==
    pc = "input" =>
        \A c \in Clients :
            LET status_lines(lines) ==
                    (lines # <<>> /\ \A k \in DOMAIN lines : lines[k] \in StatusForms) =>
                        /\ pending(rcvr') = pending_after(pending(rcvr), lines)
                        /\ received_now(c) = refusals(lines)
                        /\ \A k \in DOMAIN lines :
                               Len(lines) = 1 /\ lines[k] \in StatusOther => rcvr' = rcvr
            IN  status_lines(handed_now(c))

C29_StatusCommand == [][C29_Step]_vars

\* the six queries of the main zone are pending in their order
C29_Witness ==
    /\ io[1].handed = <<(*"status"*) <<115, 116, 97, 116, 117, 115>>>>
    /\ pending(rcvr) = << (*"PWRQSTN"*) <<80, 87, 82, 81, 83, 84, 78>>, (*"MVLQSTN"*) <<77, 86, 76, 81, 83, 84, 78>>, (*"AMTQSTN"*) <<65, 77, 84, 81, 83, 84, 78>>, (*"SLIQSTN"*) <<83, 76, 73, 81, 83, 84, 78>>,
                          (*"LMDQSTN"*) <<76, 77, 68, 81, 83, 84, 78>>, (*"TUNQSTN"*) <<84, 85, 78, 81, 83, 84, 78>> >>
    /\ lines_received(1) = {startup_msg}

\* the queries of tune and volume were pending and kept their places
C29_WitnessPending ==
    /\ io[1].handed = <<(*"tune"*) <<116, 117, 110, 101>>, (*"volume"*) <<118, 111, 108, 117, 109, 101>>, (*"status main"*) <<115, 116, 97, 116, 117, 115, 32, 109, 97, 105, 110>>>>
    /\ pending(rcvr) = << (*"TUNQSTN"*) <<84, 85, 78, 81, 83, 84, 78>>, (*"MVLQSTN"*) <<77, 86, 76, 81, 83, 84, 78>>, (*"PWRQSTN"*) <<80, 87, 82, 81, 83, 84, 78>>, (*"AMTQSTN"*) <<65, 77, 84, 81, 83, 84, 78>>,
                          (*"SLIQSTN"*) <<83, 76, 73, 81, 83, 84, 78>>, (*"LMDQSTN"*) <<76, 77, 68, 81, 83, 84, 78>> >>

C29_WitnessZones ==
    \/ /\ io[1].handed = <<(*"zone2status"*) <<122, 111, 110, 101, 50, 115, 116, 97, 116, 117, 115>>>>
       /\ pending(rcvr) = << (*"ZPWQSTN"*) <<90, 80, 87, 81, 83, 84, 78>>, (*"ZVLQSTN"*) <<90, 86, 76, 81, 83, 84, 78>>, (*"ZMTQSTN"*) <<90, 77, 84, 81, 83, 84, 78>>, (*"SLZQSTN"*) <<83, 76, 90, 81, 83, 84, 78>>,
                             (*"TUZQSTN"*) <<84, 85, 90, 81, 83, 84, 78>> >>
    \/ /\ io[1].handed = <<(*"status zone3"*) <<115, 116, 97, 116, 117, 115, 32, 122, 111, 110, 101, 51>>>>
       /\ pending(rcvr) = << (*"PW3QSTN"*) <<80, 87, 51, 81, 83, 84, 78>>, (*"VL3QSTN"*) <<86, 76, 51, 81, 83, 84, 78>>, (*"MT3QSTN"*) <<77, 84, 51, 81, 83, 84, 78>>, (*"SL3QSTN"*) <<83, 76, 51, 81, 83, 84, 78>>,
                             (*"TU3QSTN"*) <<84, 85, 51, 81, 83, 84, 78>> >>

C29_WitnessOther ==
    /\ io[1].handed = <<(*"status bogus"*) <<115, 116, 97, 116, 117, 115, 32, 98, 111, 103, 117, 115>>>>
    /\ lines_received(1) = {startup_msg, invalid_cmd}
    /\ rcvr.queue = <<>>
    /\ Len(serial_out) = 1

\* the names zone2status and zone3status decide before the argument does:
\* zone2status asks for zone 2 whatever its argument, zone3status asks for
\* zone 2 when the argument is zone2 and for zone 3 otherwise
C29_StepNames ==
    pc = "input" =>
        \A c \in Clients :
            /\ handed_now(c) \in {<<(*"zone2status bogus"*) <<122, 111, 110, 101, 50, 115, 116, 97, 116, 117, 115, 32, 98, 111, 103, 117, 115>>>>, <<(*"zone2status main"*) <<122, 111, 110, 101, 50, 115, 116, 97, 116, 117, 115, 32, 109, 97, 105, 110>>>>,
                                  <<(*"zone3status zone2"*) <<122, 111, 110, 101, 51, 115, 116, 97, 116, 117, 115, 32, 122, 111, 110, 101, 50>>>>} =>
                   /\ pending(rcvr') = append_missing(pending(rcvr), Zone2Codes)
                   /\ received_now(c) = <<>>
            /\ handed_now(c) = <<(*"zone3status 1"*) <<122, 111, 110, 101, 51, 115, 116, 97, 116, 117, 115, 32, 49>>>> =>
                   /\ pending(rcvr') = append_missing(pending(rcvr), Zone3Codes)
                   /\ received_now(c) = <<>>

C29_ZoneNames == [][C29_StepNames]_vars

(***************************************************************************)
(* C30.  The threshold of can_send_command().                              *)
(***************************************************************************)
\* the time since the last command, in microseconds
since_last == usec_of(now) - usec_of(rcvr.last_cmd)

\* times of the last command and gaps to the call, in microseconds, on both
\* sides of the wait and across the turn of a second
LastTimes == {timeval(1, 0), timeval(1, 950000), timeval(1, 999999)}

Gaps == {0, 1, 40000, 79999, 80000, 80001, 120000, 1000000, 1080000, 1080001}

\* the answer for a gap of d microseconds when yes is given from d = least on
\* and the wait is never below lowest
answers(can, d, least, lowest) ==
    IF d >= least THEN can.ok
    ELSE /\ ~can.ok
         /\ usec_of(can.timeoutval) = 1000 * COMMAND_WAIT - d
         /\ usec_of(can.timeoutval) >= lowest
         /\ usec_of(can.timeoutval) <= 1000 * COMMAND_WAIT

\* what the loop makes of the answer when a command is pending
asked_at_top(least, lowest) ==
    (pc = "top" /\ rcvr.queue # <<>>) =>
        /\ sel'.writefds = (since_last >= least)
        /\ ~sel'.writefds =>
               /\ usec_of(sel'.timeout) = 1000 * COMMAND_WAIT - since_last
               /\ usec_of(sel'.timeout) >= lowest
               /\ usec_of(sel'.timeout) <= 1000 * COMMAND_WAIT
               /\ sel'.entered = now

all_gaps(least, lowest) ==
    (pc = "top" /\ serial_out = <<>>) =>
        \A last \in LastTimes, d \in Gaps :
            answers(can_send_command(last, timeval_of(usec_of(last) + d)),
                    d, least, lowest)

\* C30 as stated: can_send_command answers yes exactly when now - last_cmd is
\* at least 80 ms, and otherwise no with the wait 80 ms - (now - last_cmd),
\* which is above 0 and at most 80 ms.
C30_StepFrom80 ==
    /\ asked_at_top(1000 * COMMAND_WAIT, 1)
    /\ all_gaps(1000 * COMMAND_WAIT, 1)

C30_Threshold == [][C30_StepFrom80]_vars

\* C30: can_send_command answers yes exactly when now - last_cmd is more
\* than 80 ms, and otherwise (now not before last_cmd) no with the wait
\* 80 ms - (now - last_cmd), which is at least 0 and at most 80 ms; it is 0
\* when exactly 80 ms have passed.
C30_StepAbove80 ==
    /\ asked_at_top(1000 * COMMAND_WAIT + 1, 0)
    /\ all_gaps(1000 * COMMAND_WAIT + 1, 0)

C30_CanSend == [][C30_StepAbove80]_vars

\* exactly 80 ms after the last command the loop was told to wait 0
C30_Witness ==
    /\ pc = "select"
    /\ rcvr.queue # <<>>
    /\ since_last = 1000 * COMMAND_WAIT
    /\ sel.entered = now
    /\ ~sel.writefds
    /\ sel.timeout = timeval_zero

\* 40 ms after the last command the loop was told to wait 40 ms
C30_WitnessWait ==
    /\ pc = "select"
    /\ rcvr.queue # <<>>
    /\ rcvr.cmds_sent >= 1
    /\ since_last = 40000
    /\ sel.entered = now
    /\ ~sel.writefds
    /\ sel.timeout = timeval(0, 40000)

\* 120 ms after the last command the loop was told to write
C30_WitnessYes ==
    /\ pc = "select"
    /\ rcvr.queue # <<>>
    /\ rcvr.cmds_sent >= 1
    /\ since_last = 120000
    /\ sel.writefds

(***************************************************************************)
(* C31.  The clock going backwards.                                        *)
(***************************************************************************)
\* the loop asks whether it may send and the clock is behind the last send
asked_behind ==
    /\ pc = "top"
    /\ rcvr.queue # <<>>
    /\ usec_of(now) < usec_of(rcvr.last_cmd)

\* times of the last command and how far the clock is behind them
BehindBy == {1, 40000, 80000, 500000, 1000000, 1500000}

\* C31: when now < last_cmd as can_send_command is consulted, it answers no
\* with a wait of 80 ms and last_cmd is reset to now, so the next send is put
\* off by one pacing interval and not by the size of the jump.
C31_StepReset ==
    asked_behind =>
        /\ ~sel'.writefds
        /\ sel'.timeout = timeval_of(1000 * COMMAND_WAIT)
        /\ rcvr'.last_cmd = now

C31_ClockBackwards == [][C31_StepReset]_vars

\* what can_send_command does: it answers no with a wait of 80 ms plus the
\* time the clock is behind, and the receiver is left as it was
C31_StepJump ==
    /\ asked_behind =>
        /\ ~sel'.writefds
        /\ usec_of(sel'.timeout) =
               1000 * COMMAND_WAIT + (usec_of(rcvr.last_cmd) - usec_of(now))
        /\ sel'.entered = now
        /\ rcvr' = rcvr
    /\ (pc = "top" /\ serial_out = <<>>) =>
        \A last \in LastTimes, b \in BehindBy :
            LET answer(can) ==
                    ~can.ok /\ usec_of(can.timeoutval) = 1000 * COMMAND_WAIT + b
            IN  answer(can_send_command(last, timeval_of(usec_of(last) - b)))

C31_WaitsOutTheJump == [][C31_StepJump]_vars

\* the clock was set back by half a second and the loop waits 580 ms with a
\* command pending
C31_Stalled ==
    /\ pc = "select"
    /\ rcvr.queue # <<>>
    /\ usec_of(rcvr.last_cmd) - usec_of(now) = 500000
    /\ ~sel.writefds
    /\ sel.entered = now
    /\ sel.timeout = timeval(0, 580000)

(***************************************************************************)
(* C32.  The timeout handed to select() is the least of the pending        *)
(* candidates: the pacing wait when the queue holds a command that cannot  *)
(* be sent yet, the time to each active zone sleep deadline, and the time  *)
(* to the next countdown update; it is absent only when there is no        *)
(* candidate.  So select() never waits past the earliest deadline, and     *)
(* never without a timeout while a command is queued and cannot be sent.   *)
(***************************************************************************)
\* the candidates after the top of the loop, in microseconds from now
wake_pacing ==
    IF rcvr'.queue # <<>> /\ ~sel'.writefds
    THEN {usec_of(can_send_command(rcvr'.last_cmd, now).timeoutval)} ELSE {}

wake_deadlines ==
    {usec_of(when) - usec_of(now) :
        when \in {rcvr'.zone2_sleep, rcvr'.zone3_sleep} \ {timeval_zero}}

wake_countdown ==
    IF rcvr'.next_sleep_update = timeval_zero THEN {}
    ELSE IF usec_of(rcvr'.next_sleep_update) > usec_of(now)
         THEN {usec_of(rcvr'.next_sleep_update) - usec_of(now)} ELSE {0}

wake_candidates == wake_pacing \cup wake_deadlines \cup wake_countdown

earliest(S) == CHOOSE d \in S : \A e \in S : d <= e

C32_StepMinimum ==
    (pc = "top" /\ pc' = "select") =>
        sel'.timeout = IF wake_candidates = {} THEN NoTimeout
                       ELSE timeval_of(earliest(wake_candidates))

C32_StepFolded ==
    (pc = "top" /\ pc' = "select") =>
        sel'.timeout = IF wake_candidates = {} THEN NoTimeout
                       ELSE IF wake_pacing = {0} /\ wake_countdown # {0}
                            THEN NoTimeout
                       ELSE timeval_of(earliest(wake_candidates))

C32_ZeroIsNoTimeout ==
    /\ [][C32_StepFolded]_vars
    /\ (pc = "top" /\ serial_out = <<>>) =>
          \A a \in BehindBy \cup {0}, b \in BehindBy \cup {0} :
              timeval_min(timeval_of(a), timeval_of(b))
                  = timeval_of(IF a = 0 \/ b < a THEN b ELSE a)

unfinished(rest) ==
    SubSeq(rest, Len(rest) - (Len(rest) % BUF_SIZE) + 1, Len(rest))

C33_BufferInvariant ==
    \A c \in Clients : \A i \in slots_of(c) :
        LET buf == connections[i].recv_buf
            pos == connections[i].recv_buf_pos
        IN  /\ pos >= 0 /\ pos < BUF_SIZE
            /\ Len(buf) = BUF_SIZE
            /\ \A j \in 1..pos : buf[j] # 10
            /\ \A j \in (pos + 1)..BUF_SIZE : buf[j] = 0
            /\ SubSeq(buf, 1, pos) = unfinished(stream_rest(consumed(c)))

\* a read brought two lines and the start of a third, which was moved to the
\* start of recv_buf; and a buffer that filled without a newline was zeroed
C33_Witness ==
    \E c \in Clients : \E i \in slots_of(c) :
        /\ Len(io[c].handed) >= 2
        /\ connections[i].recv_buf_pos = 4
        /\ SubSeq(connections[i].recv_buf, 1, 4) = (*"volu"*) <<118, 111, 108, 117>>

C33_Discarded ==
    \E c \in Clients : \E i \in slots_of(c) :
        /\ consumed(c) = overlong
        /\ connections[i].recv_buf_pos = 0
        /\ connections[i].recv_buf = zero_buf

(***************************************************************************)
(* C34.  The power bitmask starts all clear.  Parsing a power status of a  *)
(* zone (PWR0x, ZPW0x, PW30x) sets that zone's bit to the value reported   *)
(* and leaves the bits of the other zones as they were; a reply that is no *)
(* power status, and every other step of the daemon, leaves the bitmask    *)
(* as it is.  So each bit is the value of the latest power status parsed   *)
(* for its zone.                                                           *)
(***************************************************************************)
\* the bit a power status is about and the value it reports
power_reply(bytes) ==
    IF bytes = (*"!1PWR00\z"*) <<33, 49, 80, 87, 82, 48, 48, 26>> THEN <<MAIN_POWER, 0>>
    ELSE IF bytes = (*"!1PWR01\z"*) <<33, 49, 80, 87, 82, 48, 49, 26>> THEN <<MAIN_POWER, 1>>
    ELSE IF bytes = (*"!1ZPW00\z"*) <<33, 49, 90, 80, 87, 48, 48, 26>> THEN <<ZONE2_POWER, 0>>
    ELSE IF bytes = (*"!1ZPW01\z"*) <<33, 49, 90, 80, 87, 48, 49, 26>> THEN <<ZONE2_POWER, 1>>
    ELSE IF bytes = (*"!1PW300\z"*) <<33, 49, 80, 87, 51, 48, 48, 26>> THEN <<ZONE3_POWER, 0>>
    ELSE <<ZONE3_POWER, 1>>

power_bit(p, bit) == (p \div bit) % 2

ZoneBits == {MAIN_POWER, ZONE2_POWER, ZONE3_POWER}

\* the step is the read of a message of the receiver
reply_read == pc = "serial_read" /\ serial_in' = Tail(serial_in)

C34_StepPower ==
    /\ rcvr'.power \in 0..(MAIN_POWER + ZONE2_POWER + ZONE3_POWER)
    /\ IF reply_read /\ Head(serial_in).bytes \in PowerReplies
       THEN LET about == power_reply(Head(serial_in).bytes)
            IN  \A bit \in ZoneBits :
                   power_bit(rcvr'.power, bit)
                      = IF bit = about[1] THEN about[2]
                        ELSE power_bit(rcvr.power, bit)
       ELSE rcvr'.power = rcvr.power

C34_PowerBitmask ==
    /\ [](rcvr.msgs_received = 0 => rcvr.power = POWER_OFF)
    /\ [][C34_StepPower]_vars

\* the last two lines a client received, in their order
last_two(c) ==
    IF Len(peer[c].rx) < 2 THEN <<>>
    ELSE <<peer[c].rx[Len(peer[c].rx) - 1].line, peer[c].rx[Len(peer[c].rx)].line>>

\* the main zone was reported on and then zone 3: both bits are set
C34_Witness ==
    /\ rcvr.power = MAIN_POWER + ZONE3_POWER
    /\ rcvr.msgs_received = 2
    /\ \E c \in Clients :
          last_two(c) = << (*"OK:power:on\n"*) <<79, 75, 58, 112, 111, 119, 101, 114, 58, 111, 110, 10>>, (*"OK:zone3power:on\n"*) <<79, 75, 58, 122, 111, 110, 101, 51, 112, 111, 119, 101, 114, 58, 111, 110, 10>> >>

\* zone 2 was reported on and then off: its bit is clear again
C34_LatestWins ==
    /\ rcvr.power = POWER_OFF
    /\ \E c \in Clients :
          last_two(c) = << (*"OK:zone2power:on\n"*) <<79, 75, 58, 122, 111, 110, 101, 50, 112, 111, 119, 101, 114, 58, 111, 110, 10>>, (*"OK:zone2power:off\n"*) <<79, 75, 58, 122, 111, 110, 101, 50, 112, 111, 119, 101, 114, 58, 111, 102, 102, 10>> >>


(***************************************************************************)
(* C35.  Parsing ZPW00 clears the sleep deadline of zone 2 and parsing     *)
(* PW300 that of zone 3; each leaves the deadline of the other zone as it  *)
(* was, and PWR00 and the three power-on statuses change no deadline.      *)
(* While the deadline of a zone is clear the timers of the loop put no     *)
(* power-off for it in the queue and write no countdown for it.            *)
(***************************************************************************)
\* the lines client d receives in this step
lines_now(d) ==
    [k \in 1..(Len(peer'[d].rx) - Len(peer[d].rx)) |->
        peer'[d].rx[Len(peer[d].rx) + k].line]

\* how the lines about the sleep timer of a zone begin
sleep_prefix(zone) == (*"OK:zone"*) <<79, 75, 58, 122, 111, 110, 101>> \o <<zone>> \o (*"sleep:"*) <<115, 108, 101, 101, 112, 58>>

C35_StepCancel ==
    /\ reply_read =>
          /\ rcvr'.zone2_sleep = IF Head(serial_in).bytes = (*"!1ZPW00\z"*) <<33, 49, 90, 80, 87, 48, 48, 26>>
                                 THEN timeval_zero ELSE rcvr.zone2_sleep
          /\ rcvr'.zone3_sleep = IF Head(serial_in).bytes = (*"!1PW300\z"*) <<33, 49, 80, 87, 51, 48, 48, 26>>
                                 THEN timeval_zero ELSE rcvr.zone3_sleep
    /\ \A zone \in {50, 51} :
          (zone_sleep(rcvr, zone) = timeval_zero /\ pc # "input") =>
              /\ zone_sleep(rcvr', zone) = timeval_zero
              /\ enqueued_now(zone_off_cmd(zone)) = {}
              /\ \A d \in Clients : \A k \in 1..Len(lines_now(d)) :
                    ~strncmp_eq(lines_now(d)[k], sleep_prefix(zone))

C35_PowerOffCancels == [][C35_StepCancel]_vars

\* both timers were set and zone 2 was reported off: its deadline is
\* cleared, that of zone 3 stands
C35_Witness ==
    /\ rcvr.zone2_sleep = timeval_zero
    /\ rcvr.zone3_sleep # timeval_zero
    /\ rcvr.msgs_received = 1
    /\ \E c \in Clients :
          /\ io[c].handed = << (*"zone2sleep 2"*) <<122, 111, 110, 101, 50, 115, 108, 101, 101, 112, 32, 50>>, (*"zone3sleep 1"*) <<122, 111, 110, 101, 51, 115, 108, 101, 101, 112, 32, 49>> >>
          /\ peer[c].rx[Len(peer[c].rx)].line = (*"OK:zone2power:off\n"*) <<79, 75, 58, 122, 111, 110, 101, 50, 112, 111, 119, 101, 114, 58, 111, 102, 102, 10>>

\* the timer of zone 2 was set and the main zone was reported off: the
\* deadline stands
C35_MainOffKeeps ==
    /\ rcvr.zone2_sleep # timeval_zero
    /\ \E c \in Clients :
          /\ io[c].handed = << (*"zone2sleep 2"*) <<122, 111, 110, 101, 50, 115, 108, 101, 101, 112, 32, 50>> >>
          /\ peer[c].rx[Len(peer[c].rx)].line = (*"OK:power:off\n"*) <<79, 75, 58, 112, 111, 119, 101, 114, 58, 111, 102, 102, 10>>

\* the timer of zone 2 was cancelled by the report and its time has passed:
\* nothing but the power query was written to the receiver
C35_NoExpiry ==
    /\ rcvr.zone2_sleep = timeval_zero
    /\ rcvr.msgs_received = 1
    /\ now.tv_sec >= start_time.tv_sec + 125
    /\ \A k \in 1..Len(serial_out) : serial_out[k].bytes # (*"!1ZPW00\r\n"*) <<33, 49, 90, 80, 87, 48, 48, 13, 10>>
    /\ \E c \in Clients :
          /\ io[c].handed = << (*"zone2sleep 2"*) <<122, 111, 110, 101, 50, 115, 108, 101, 101, 112, 32, 50>> >>
          /\ \E k \in 1..Len(peer[c].rx) : peer[c].rx[k].line = (*"OK:zone2power:off\n"*) <<79, 75, 58, 122, 111, 110, 101, 50, 112, 111, 119, 101, 114, 58, 111, 102, 102, 10>>

(***************************************************************************)
(* C36.  A payload is looked up in the static status table first, then in  *)
(* the power status table, and is decoded by the family of its first       *)
(* letters only when both miss; a payload that no table and no family      *)
(* knows gives OK:todo:<payload>.  ZVLN/A gives ERROR:zone2volume:N/A and  *)
(* is not decoded as a volume.  Every message that holds the start         *)
(* characters has at least one line written to every connected client.     *)
(***************************************************************************)
\* payloads of the prefix families, and payloads that nothing knows
FamilyPayloads ==
    { (*"MVL28"*) <<77, 86, 76, 50, 56>>, (*"ZVL1A"*) <<90, 86, 76, 49, 65>>, (*"VL300"*) <<86, 76, 51, 48, 48>>, (*"TUN09790"*) <<84, 85, 78, 48, 57, 55, 57, 48>>, (*"TUZ00600"*) <<84, 85, 90, 48, 48, 54, 48, 48>>, (*"PRS1E"*) <<80, 82, 83, 49, 69>>,
      (*"PR328"*) <<80, 82, 51, 50, 56>>, (*"SLP5A"*) <<83, 76, 80, 53, 65>>, (*"SWL+5"*) <<83, 87, 76, 43, 53>>, (*"AVS1000"*) <<65, 86, 83, 49, 48, 48, 48>>, (*"ZVLN/B"*) <<90, 86, 76, 78, 47, 66>>, (*"MVL"*) <<77, 86, 76>> }

UnknownPayloads == { (*"XYZ12"*) <<88, 89, 90, 49, 50>>, (*"PWR02"*) <<80, 87, 82, 48, 50>>, (*"ZPW"*) <<90, 80, 87>>, (*"N/A"*) <<78, 47, 65>>, <<>> }

framed(payload) == START_RECV \o payload \o END_RECV

todo_line(payload) == (*"OK:todo:"*) <<79, 75, 58, 116, 111, 100, 111, 58>> \o payload \o <<10>>

C36_StepLookup ==
    /\ (pc = "top" /\ serial_out = <<>>) =>
          /\ \A i \in DOMAIN statuses :
                parse_status(rcvr, framed(statuses[i].key))
                   = [rcvr |-> rcvr, ret |-> 0, out |-> <<statuses[i].value>>]
          /\ \A i \in DOMAIN power_statuses :
                /\ parse_status(rcvr, framed(power_statuses[i].key)).out
                      = <<power_statuses[i].value>>
                /\ parse_status(rcvr, framed(power_statuses[i].key)).ret = 0
          /\ \A p \in UnknownPayloads :
                parse_status(rcvr, framed(p))
                   = [rcvr |-> rcvr, ret |-> 0, out |-> <<todo_line(p)>>]
          /\ \A p \in FamilyPayloads :
                LET res == parse_status(rcvr, framed(p))
                IN  /\ res.rcvr = rcvr /\ res.ret = 0
                    /\ Len(res.out) >= 1
                    /\ \A k \in 1..Len(res.out) :
                          /\ strncmp_eq(res.out[k], (*"OK:"*) <<79, 75, 58>>)
                          /\ ~strncmp_eq(res.out[k], (*"OK:todo:"*) <<79, 75, 58, 116, 111, 100, 111, 58>>)
          /\ parse_status(rcvr, framed((*"ZVLN/A"*) <<90, 86, 76, 78, 47, 65>>)).out
                = << (*"ERROR:zone2volume:N/A\n"*) <<69, 82, 82, 79, 82, 58, 122, 111, 110, 101, 50, 118, 111, 108, 117, 109, 101, 58, 78, 47, 65, 10>> >>
    /\ reply_read =>
          \A d \in connected_next :
              /\ Len(lines_now(d)) >= 1
              /\ Head(serial_in).bytes = framed((*"ZVLN/A"*) <<90, 86, 76, 78, 47, 65>>)
                    => lines_now(d) = << (*"ERROR:zone2volume:N/A\n"*) <<69, 82, 82, 79, 82, 58, 122, 111, 110, 101, 50, 118, 111, 108, 117, 109, 101, 58, 78, 47, 65, 10>> >>
              /\ Head(serial_in).bytes = framed((*"XYZ12"*) <<88, 89, 90, 49, 50>>)
                    => lines_now(d) = << todo_line((*"XYZ12"*) <<88, 89, 90, 49, 50>>) >>
              /\ Head(serial_in).bytes = framed((*"PWR01"*) <<80, 87, 82, 48, 49>>)
                    => lines_now(d) = << (*"OK:power:on\n"*) <<79, 75, 58, 112, 111, 119, 101, 114, 58, 111, 110, 10>> >>

C36_LookupPrecedence == [][C36_StepLookup]_vars

\* a client was told that the volume of zone 2 is not available
C36_Witness ==
    /\ rcvr.msgs_received >= 1
    /\ \E c \in Clients :
          /\ peer[c].rx # <<>>
          /\ peer[c].rx[Len(peer[c].rx)].line = (*"ERROR:zone2volume:N/A\n"*) <<69, 82, 82, 79, 82, 58, 122, 111, 110, 101, 50, 118, 111, 108, 117, 109, 101, 58, 78, 47, 65, 10>>

\* a client was sent a status the daemon does not know
C36_Todo ==
    \E c \in Clients :
        /\ peer[c].rx # <<>>
        /\ peer[c].rx[Len(peer[c].rx)].line = todo_line((*"XYZ12"*) <<88, 89, 90, 49, 50>>)

(***************************************************************************)
(* C37.  While the serial line takes the writes and the clock moves on,    *)
(* every command put in the queue leaves it again: it is written to the    *)
(* serial line or dropped by the test of the power.  No command stays in   *)
(* the queue for ever, also while the power bitmask is clear.              *)
(***************************************************************************)
\* the commands are numbered as they enter the queue
QueueSeqs == 1..(MaxSends + 1)

in_queue(n) == \E i \in DOMAIN rcvr.queue : rcvr.queue[i].seq = n

was_written(n) == \E k \in DOMAIN serial_out : serial_out[k].seq = n

C37_QueueDrains ==
    /\ \A n \in QueueSeqs : in_queue(n) ~> ~in_queue(n)
    /\ [](\A n \in QueueSeqs : was_written(n) => n <= rcvr.queued /\ ~in_queue(n))
    /\ [](rcvr.queued <= MaxSends + 1)

\* three commands were queued and all three were written
C37_Witness ==
    /\ rcvr.queued = MaxSends + 1
    /\ rcvr.queue = <<>>
    /\ \A n \in QueueSeqs : was_written(n)

\* the volume was asked for while everything was off: the command has left
\* the queue and was not written
C37_Dropped ==
    /\ rcvr.power = POWER_OFF
    /\ rcvr.queued = 2
    /\ rcvr.queue = <<>>
    /\ ~was_written(2)
    /\ \E c \in Clients : io[c].handed = << (*"volume 40"*) <<118, 111, 108, 117, 109, 101, 32, 52, 48>> >>

\* the loop found the pacing interval over to the microsecond: select() is
\* given a timeout of zero with the command still in the queue
C37_AtOnce ==
    /\ pc = "select"
    /\ rcvr.queue # <<>>
    /\ ~sel.writefds
    /\ sel.timeout = timeval_zero

(***************************************************************************)
(* C38.  A line whose code is still in the queue is answered as done (no   *)
(* error line) and adds nothing, so the lines that arrive before the code  *)
(* is written cause one write; volume 40 and dbvolume -42 both give MVL28  *)
(* and coalesce as well.  After the code has left the queue the same code  *)
(* is put in the queue again.                                              *)
(***************************************************************************)
queue_cmds(q) == [i \in DOMAIN q |-> q[i].cmd]

\* the writes of a command to the serial line so far
writes_of(cmd) ==
    {k \in DOMAIN serial_out : serial_out[k].bytes = START_SEND \o cmd \o END_SEND}

\* the receiver with this command in its queue and nothing else
with_pending(cmd) ==
    [rcvr EXCEPT !.queue = <<[hash |-> hash_sdbm(cmd), cmd |-> cmd,
                              seq |-> rcvr.queued + 1]>>,
                 !.queued = @ + 1]

C38_StepCoalesce ==
    /\ (pc = "top" /\ serial_out = <<>>) =>
          \A line \in { (*"volume 40"*) <<118, 111, 108, 117, 109, 101, 32, 52, 48>>, (*"dbvolume -42"*) <<100, 98, 118, 111, 108, 117, 109, 101, 32, 45, 52, 50>> } :
              /\ process_command(with_pending((*"MVL28"*) <<77, 86, 76, 50, 56>>), line, now)
                    = [rcvr |-> with_pending((*"MVL28"*) <<77, 86, 76, 50, 56>>), ret |-> 0, out |-> <<>>]
              /\ queue_cmds(process_command(with_pending((*"PWR01"*) <<80, 87, 82, 48, 49>>), line, now)
                               .rcvr.queue)
                    = << (*"PWR01"*) <<80, 87, 82, 48, 49>>, (*"MVL28"*) <<77, 86, 76, 50, 56>> >>
    /\ \A c \in Clients :
          handed_now(c) # <<>> =>
              /\ queue_cmds(rcvr'.queue)
                    = IF \E i \in DOMAIN rcvr.queue : rcvr.queue[i].cmd = (*"MVL28"*) <<77, 86, 76, 50, 56>>
                      THEN queue_cmds(rcvr.queue)
                      ELSE Append(queue_cmds(rcvr.queue), (*"MVL28"*) <<77, 86, 76, 50, 56>>)
              /\ lines_now(c) = <<>>
              /\ peer'[c].st = peer[c].st

C38_Coalescing ==
    /\ [][C38_StepCoalesce]_vars
    /\ [](\A i, j \in DOMAIN rcvr.queue :
              rcvr.queue[i].cmd = rcvr.queue[j].cmd => i = j)

\* four lines for the same volume came before it was written: it was
\* written once and the queue is empty
C38_Witness ==
    /\ rcvr.queue = <<>>
    /\ rcvr.queued = 2
    /\ Cardinality(writes_of((*"MVL28"*) <<77, 86, 76, 50, 56>>)) = 1
    /\ \E c \in Clients :
          io[c].handed = << (*"volume 40"*) <<118, 111, 108, 117, 109, 101, 32, 52, 48>>, (*"volume 40"*) <<118, 111, 108, 117, 109, 101, 32, 52, 48>>, (*"dbvolume -42"*) <<100, 98, 118, 111, 108, 117, 109, 101, 32, 45, 52, 50>>,
                            (*"volume 40"*) <<118, 111, 108, 117, 109, 101, 32, 52, 48>> >>

\* the volume was written and then asked for again: it is in the queue again
C38_Again ==
    /\ writes_of((*"MVL28"*) <<77, 86, 76, 50, 56>>) # {}
    /\ \E i \in DOMAIN rcvr.queue : rcvr.queue[i].cmd = (*"MVL28"*) <<77, 86, 76, 50, 56>>

(***************************************************************************)
(* C39.  A line that process_command() rejects as invalid leaves the       *)
(* receiver as it was: the queue with its order, the power bitmask, the    *)
(* sleep deadlines of both zones, last_cmd and the counters.  No handler   *)
(* puts a command in the queue or sets a field before it rejects.          *)
(***************************************************************************)
\* lines that are rejected: names that do not exist, arguments that are
\* missing, not known, not numbers or out of range
RejectedLines ==
    { <<>>, (*"bogus"*) <<98, 111, 103, 117, 115>>, (*"bogus on"*) <<98, 111, 103, 117, 115, 32, 111, 110>>, (*"power bogus"*) <<112, 111, 119, 101, 114, 32, 98, 111, 103, 117, 115>>,
      (*"mute 1"*) <<109, 117, 116, 101, 32, 49>>, (*"volume 101"*) <<118, 111, 108, 117, 109, 101, 32, 49, 48, 49>>, (*"volume -1"*) <<118, 111, 108, 117, 109, 101, 32, 45, 49>>, (*"volume 4x"*) <<118, 111, 108, 117, 109, 101, 32, 52, 120>>, (*"volume abc"*) <<118, 111, 108, 117, 109, 101, 32, 97, 98, 99>>,
      (*"dbvolume 19"*) <<100, 98, 118, 111, 108, 117, 109, 101, 32, 49, 57>>, (*"dbvolume -83"*) <<100, 98, 118, 111, 108, 117, 109, 101, 32, 45, 56, 51>>, (*"zone2volume 101"*) <<122, 111, 110, 101, 50, 118, 111, 108, 117, 109, 101, 32, 49, 48, 49>>, (*"preset 41"*) <<112, 114, 101, 115, 101, 116, 32, 52, 49>>,
      (*"avsync 251"*) <<97, 118, 115, 121, 110, 99, 32, 50, 53, 49>>, (*"avsync -1"*) <<97, 118, 115, 121, 110, 99, 32, 45, 49>>, (*"swlevel 13"*) <<115, 119, 108, 101, 118, 101, 108, 32, 49, 51>>, (*"swlevel -16"*) <<115, 119, 108, 101, 118, 101, 108, 32, 45, 49, 54>>,
      (*"swlevel x"*) <<115, 119, 108, 101, 118, 101, 108, 32, 120>>, (*"input bogus"*) <<105, 110, 112, 117, 116, 32, 98, 111, 103, 117, 115>>, (*"mode bogus"*) <<109, 111, 100, 101, 32, 98, 111, 103, 117, 115>>, (*"tune abc"*) <<116, 117, 110, 101, 32, 97, 98, 99>>, (*"tune 50"*) <<116, 117, 110, 101, 32, 53, 48>>, (*"sleep 91"*) <<115, 108, 101, 101, 112, 32, 57, 49>>, (*"sleep -1"*) <<115, 108, 101, 101, 112, 32, 45, 49>>, (*"sleep 5x"*) <<115, 108, 101, 101, 112, 32, 53, 120>>,
      (*"zone2sleep -1"*) <<122, 111, 110, 101, 50, 115, 108, 101, 101, 112, 32, 45, 49>>, (*"zone2sleep 5x"*) <<122, 111, 110, 101, 50, 115, 108, 101, 101, 112, 32, 53, 120>>, (*"zone3sleep abc"*) <<122, 111, 110, 101, 51, 115, 108, 101, 101, 112, 32, 97, 98, 99>>,
      (*"zone3sleep -20"*) <<122, 111, 110, 101, 51, 115, 108, 101, 101, 112, 32, 45, 50, 48>>, (*"memory"*) <<109, 101, 109, 111, 114, 121>>, (*"memory bogus"*) <<109, 101, 109, 111, 114, 121, 32, 98, 111, 103, 117, 115>>, (*"status bogus"*) <<115, 116, 97, 116, 117, 115, 32, 98, 111, 103, 117, 115>>,
      (*"raw"*) <<114, 97, 119>> }

\* lines that are taken
AcceptedLines ==
    { (*"power on"*) <<112, 111, 119, 101, 114, 32, 111, 110>>, (*"volume 40"*) <<118, 111, 108, 117, 109, 101, 32, 52, 48>>, (*"status"*) <<115, 116, 97, 116, 117, 115>>, (*"zone2sleep 2"*) <<122, 111, 110, 101, 50, 115, 108, 101, 101, 112, 32, 50>>,
      (*"zone3sleep off"*) <<122, 111, 110, 101, 51, 115, 108, 101, 101, 112, 32, 111, 102, 102>>, (*"raw MVLQSTN"*) <<114, 97, 119, 32, 77, 86, 76, 81, 83, 84, 78>>, (*"tune 97.9"*) <<116, 117, 110, 101, 32, 57, 55, 46, 57>>, (*"power "*) <<112, 111, 119, 101, 114, 32>>, (*"zone2status bogus x"*) <<122, 111, 110, 101, 50, 115, 116, 97, 116, 117, 115, 32, 98, 111, 103, 117, 115, 32, 120>>, (*"quit"*) <<113, 117, 105, 116>> }

\* a receiver in the middle of its work: zones on, two commands pending,
\* both sleep timers set
busy_receiver ==
    [both_armed EXCEPT
        !.power = MAIN_POWER + ZONE2_POWER,
        !.queue = <<[hash |-> hash_sdbm((*"MVL28"*) <<77, 86, 76, 50, 56>>), cmd |-> (*"MVL28"*) <<77, 86, 76, 50, 56>>,
                     seq |-> rcvr.queued + 1],
                    [hash |-> hash_sdbm((*"ZPW01"*) <<90, 80, 87, 48, 49>>), cmd |-> (*"ZPW01"*) <<90, 80, 87, 48, 49>>,
                     seq |-> rcvr.queued + 2]>>,
        !.queued = @ + 2,
        !.next_sleep_update = timeval(now.tv_sec + 60, now.tv_usec)]

C39_StepInvalid ==
    /\ pc = "input" =>
          /\ \A line \in RejectedLines :
                process_command(busy_receiver, line, now)
                   = [rcvr |-> busy_receiver, ret |-> -1, out |-> <<>>]
          /\ \A line \in AcceptedLines :
                process_command(busy_receiver, line, now).ret # -1
    /\ \A c \in Clients :
          (Len(handed_now(c)) = 1
             /\ \E k \in 1..Len(lines_now(c)) : lines_now(c)[k] = invalid_cmd)
          => /\ rcvr' = rcvr
             /\ lines_now(c) = <<invalid_cmd>>
             /\ \A d \in Clients \ {c} : peer'[d] = peer[d]

C39_InvalidUnchanged == [][C39_StepInvalid]_vars

\* volume 101 was rejected: the client was told so and nothing was queued
C39_Witness ==
    /\ pc # "input"
    /\ rcvr.queue = <<>>
    /\ rcvr.queued = 1
    /\ io[1].handed = << (*"volume 101"*) <<118, 111, 108, 117, 109, 101, 32, 49, 48, 49>> >>
    /\ peer[1].rx[Len(peer[1].rx)].line = invalid_cmd

(***************************************************************************)
(* The daemon with one client that writes one line with a number for       *)
(* preset, sleep or avsync, and a receiver that reports the setting it was *)
(* sent.  handle_ranged() formats the number into char cmdstr[3]; for      *)
(* avsync the format "%03ld0" gives four characters and the terminating    *)
(* zero, so sprintf() writes two bytes beyond the array.  The C standard   *)
(* leaves what happens then undefined.  The builds produce two outcomes:   *)
(* the two bytes fall on stack the function no longer reads, and the code  *)
(* goes to the queue whole (Input, with handle_avsync as defined above);   *)
(* or the write is caught (a checked sprintf() such as glibc's with        *)
(* _FORTIFY_SOURCE, or a stack guard) and the process is aborted before    *)
(* anything is queued (InputOverflow).                                     *)
(***************************************************************************)
\* the commands whose numbers travel to the receiver and back, and the
\* largest number each takes
RoundCommands ==
    { [name |-> (*"preset"*) <<112, 114, 101, 115, 101, 116>>, hi |-> 40],
      [name |-> (*"sleep"*) <<115, 108, 101, 101, 112>>,  hi |-> 90],
      [name |-> (*"avsync"*) <<97, 118, 115, 121, 110, 99>>, hi |-> 250] }

RoundLines ==
    UNION {{cmd_line(g.name, fmt_ld(N)) : N \in 0..g.hi} : g \in RoundCommands}

RoundInit ==
    \E bytes \in RoundLines :
        LET begun(asked_r, heard, conn) ==
                /\ rcvr = heard.rcvr
                /\ serial_out = <<[bytes |-> asked_r.wrote.bytes,
                                   seq |-> asked_r.wrote.seq,
                                   at |-> start_time, power |-> POWER_OFF]>>
                /\ connections = conn.connections
                /\ peer = [conn.peer EXCEPT ![1].tx = bytes]
            heard(asked_r) ==
                begun(asked_r,
                      process_incoming_message(asked_r.rcvr, (*"!1PWR01\z"*) <<33, 49, 80, 87, 82, 48, 49, 26>>),
                      open_connection(
                          [connections |-> [i \in Slots |-> free_conn],
                           peer |-> [c \in Clients |->
                                        [st |-> "idle", closed |-> FALSE,
                                         tx |-> <<>>, rx |-> <<>>]]],
                          1, TRUE).w)
        IN  /\ heard(power_asked)
            /\ now = start_time
            /\ pc = "select"
            /\ sel = [writefds |-> FALSE, timeout |-> NoTimeout,
                      entered |-> timeval_zero, ready |-> nothing_ready]
            /\ signalpipe = <<>>
            /\ serial_in = <<>>
            /\ backlog = <<>>
            /\ count = [sends |-> 1, replies |-> 1, signals |-> 0, faults |-> 0]
            /\ io = [c \in Clients |->
                        [sent |-> IF c = 1 THEN bytes ELSE <<>>, handed |-> <<>>]]
            /\ proc = running

\* the first line the connection to be read holds is handed to
\* process_command(), whose sprintf() writes beyond cmdstr, and the write
\* is caught: the process is aborted, and the kernel closes its descriptors
InputOverflow ==
    /\ pc = "input"
    /\ LET i    == input_slot
           c    == connections[i]
           data == SubSeq(c.recv_buf, 1, c.recv_buf_pos) \o peer[c.fd].tx
           nl   == strchr(data, 10)
           aborted(d) ==
               /\ connections' = d.connections
               /\ peer' = d.peer
               /\ backlog' = d.backlog
               /\ proc' = d.proc
       IN  /\ nl # 0 /\ nl <= BUF_SIZE
           /\ command_overflow(SubSeq(data, 1, nl - 1))
           /\ io' = [io EXCEPT ![c.fd].handed = Append(@, SubSeq(data, 1, nl - 1))]
           /\ aborted(cleanup([rcvr |-> rcvr, connections |-> connections,
                               peer |-> peer, backlog |-> backlog,
                               proc |-> proc], "SIGABRT"))
    /\ pc' = "exit"
    /\ UNCHANGED <<now, rcvr, sel, signalpipe, serial_in, serial_out, count>>

RoundNext ==
    \/ LoopTop
    \/ SelectReturn
    \/ SerialRead
    \/ SerialWrite /\ count' = count
    \/ Input
    \/ InputOverflow
    \/ \E d \in Deltas : Elapse(d)
    \/ CmdEcho

RoundSpec == RoundInit /\ [][RoundNext]_vars

(***************************************************************************)
(* C40.  Numeric round trips.                                              *)
(***************************************************************************)
\* the line a client reads for the number N of a command
round_line(name, N) == (*"OK:"*) <<79, 75, 58>> \o name \o (*":"*) <<58>> \o fmt_ld(N) \o <<10>>

\* what the receiver's report of the code cmd is parsed to
parsed_back(r, cmd) == parse_status(r, START_RECV \o cmd \o END_RECV).out

\* the step that hands the client's line `<command> N` to process_command()
\* leaves one code in the queue, and that code parses to OK:<command>:N
round_step ==
    (pc = "input" /\ io[1].handed = <<>>) =>
        \A g \in RoundCommands : \A N \in 0..g.hi :
            io[1].sent = cmd_line(g.name, fmt_ld(N)) =>
                /\ Len(rcvr'.queue) = 1
                /\ parsed_back(rcvr', rcvr'.queue[1].cmd) = <<round_line(g.name, N)>>

\* what the client reads after the greeting is the line for the number it
\* sent
round_received ==
    \A g \in RoundCommands : \A N \in 0..g.hi :
        io[1].sent = cmd_line(g.name, fmt_ld(N)) =>
            \A k \in 1..Len(peer[1].rx) :
                peer[1].rx[k].line \in {startup_msg, round_line(g.name, N)}

\* C40: for every N that preset (0..40), sleep (0..90) and avsync (0..250)
\* accept, the code that translate puts in the queue for `<command> N` is
\* parsed to OK:<command>:N with the same N, and that is the line the client
\* reads when the receiver reports the setting.
C40_RoundTrip == [][round_step]_vars /\ []round_received

\* the same for the steps in which the process is not aborted: preset and
\* sleep always, avsync when the write beyond cmdstr does no harm
C40_WhenNotAborted ==
    [][pc' # "exit" => round_step]_vars /\ []round_received

\* avsync 100 was handed over and the process was aborted in sprintf():
\* nothing was queued, nothing was written to the receiver
C40_Aborted ==
    /\ pc = "exit"
    /\ proc.status = "SIGABRT"
    /\ io[1].sent = (*"avsync 100\n"*) <<97, 118, 115, 121, 110, 99, 32, 49, 48, 48, 10>>
    /\ io[1].handed = << (*"avsync 100"*) <<97, 118, 115, 121, 110, 99, 32, 49, 48, 48>> >>
    /\ rcvr.queue = <<>>
    /\ Len(serial_out) = 1

\* avsync 100 went to the receiver as AVS1000 and came back as 100
C40_Returned ==
    /\ io[1].sent = (*"avsync 100\n"*) <<97, 118, 115, 121, 110, 99, 32, 49, 48, 48, 10>>
    /\ Len(serial_out) = 2
    /\ serial_out[2].bytes = (*"!1AVS1000\r\n"*) <<33, 49, 65, 86, 83, 49, 48, 48, 48, 13, 10>>
    /\ peer[1].rx[Len(peer[1].rx)].line = (*"OK:avsync:100\n"*) <<79, 75, 58, 97, 118, 115, 121, 110, 99, 58, 49, 48, 48, 10>>

\* preset 31 went to the receiver as PRS1F and came back as 31
C40_HexReturned ==
    /\ io[1].sent = (*"preset 31\n"*) <<112, 114, 101, 115, 101, 116, 32, 51, 49, 10>>
    /\ Len(serial_out) = 2
    /\ serial_out[2].bytes = (*"!1PRS1F\r\n"*) <<33, 49, 80, 82, 83, 49, 70, 13, 10>>
    /\ peer[1].rx[Len(peer[1].rx)].line = (*"OK:preset:31\n"*) <<79, 75, 58, 112, 114, 101, 115, 101, 116, 58, 51, 49, 10>>

====
